---- MODULE Spec2Model ----
(***************************************************************************)
(* Model of the scanner-button poll listener (src/src/poll.rs) on top of   *)
(* its UDP channel (src/src/channel.rs) and of the poll response decoder   *)
(* (src/bjnp/src/poll/response.rs).                                        *)
(*                                                                         *)
(* One action per await point of Listener::next / Listener::try_init: the  *)
(* listener runs on a single-threaded runtime, so everything between two   *)
(* await points is one atomic step.  The scanner, the network and the      *)
(* timers are the environment: every send and recv draws its outcome       *)
(* (completed, deadline elapsed, socket error, and for a recv the datagram *)
(* that arrived) from a small set.                                         *)
(*                                                                         *)
(* Further specifications study one part each: ChannelSpec the sequence    *)
(* counter of the channel, RecvSpec Channel::recv on one datagram,         *)
(* ScanSpec the discovery scan (src/src/scan.rs) with its tasks,           *)
(* CommandSpec the serialization of poll commands, IdentitySpec and        *)
(* DecodeSpec the decoders of src/bjnp on byte buffers, HostSpec           *)
(* Host::new, SockSpec the channel together with the socket's receive      *)
(* queue, and LiveSpec the same under fairness with a scanner that has     *)
(* recovered.                                                              *)
(***************************************************************************)
EXTENDS Integers, Sequences, FiniteSets, TLC

VARIABLES
    config,      \* ListenConfig: initial_max_waiting, backoff_factor, backoff_maximum
    state,       \* Listener.state
    session_id,  \* Listener.session_id
    sequence,    \* Channel.sequence (Wrapping<u16>)
    pc,          \* await point the listen loop is suspended at
    max_waiting, \* the deadline of the step in progress (seconds)
    resp,        \* the local `resp` of a poll round
    ops,         \* history: the operations of the step in progress / last step
    entered,     \* history: Listener.state when the step began
    result,      \* history: how the last call of next() returned
    err,         \* history: the error the last failed next() returned
    last_sent,   \* history: the sequence fields of the last two packets sent
    call,        \* the operation under study and its arguments
    ret,         \* what the operation under study returned
    scan         \* the discovery scan (its select loop and its tasks), or
                 \* the listener's position and the socket in SockSpec

vars == <<config, state, session_id, sequence, pc, max_waiting, resp, ops,
          entered, result, err, last_sent, call, ret, scan>>

----------------------------------------------------------------------------
(* Bounds of the model                                                     *)

MaxInitialWaiting == 3
MaxBackoffMaximum == 5
MaxId == 1
MaxSequence == 3

----------------------------------------------------------------------------
(* Values                                                                  *)

U16 == 65536

None == [some |-> FALSE, v |-> 0]
Some(x) == [some |-> TRUE, v |-> x]
UnwrapOr(o, dflt) == IF o.some THEN o.v ELSE dflt

StateInit == [tag |-> "Init", dur |-> 0]
StatePoll == [tag |-> "Poll", dur |-> 0]
StateBackoff(d) == [tag |-> "Backoff", dur |-> d]

\* f32 values of --backoff-factor: m * 2^(e-23) with a 24-bit significand m.
\* 1.5, 2.0 (the default) and 1.6666666 (the f32 nearest to that decimal).
Factors ==
    { [m |-> 12582912, e |-> 0],
      [m |-> 8388608,  e |-> 1],
      [m |-> 13981013, e |-> 0] }

Configs ==
    [ initial_max_waiting : 1..MaxInitialWaiting,
      backoff_factor      : Factors,
      backoff_maximum     : 1..MaxBackoffMaximum ]

Hostname == "host"

----------------------------------------------------------------------------
(* f32 arithmetic of transit_err:                                          *)
(*     (dur.as_secs() as f32 * self.config.backoff_factor) as u64          *)
(* A positive f32 keeps 24 significant bits; conversions and products are  *)
(* rounded to nearest, ties to even.                                       *)

RECURSIVE Pow2(_)
Pow2(n) == IF n = 0 THEN 1 ELSE 2 * Pow2(n - 1)

RECURSIVE BitLen(_)
BitLen(n) == IF n = 0 THEN 0 ELSE 1 + BitLen(n \div 2)

\* the integer n rounded to 24 significant bits, ties to even
F32Round(n) ==
    IF BitLen(n) <= 24 THEN n
    ELSE LET s    == BitLen(n) - 24
             q    == n \div Pow2(s)
             r    == n % Pow2(s)
             half == Pow2(s - 1)
             up   == r > half \/ (r = half /\ q % 2 = 1)
         IN  (IF up THEN q + 1 ELSE q) * Pow2(s)

\* `secs as f32`
U64AsF32(secs) == F32Round(secs)

\* a * f in f32, as a multiple of 2^(f.e - 23); a is an integer-valued f32
F32Mul(a, f) == [n |-> F32Round(a * f.m), e |-> f.e]

\* `x as u64` of a non-negative f32: truncation (saturation at 2^64 - 1 is
\* out of reach of the bounded durations)
F32AsU64(x) == (x.n * Pow2(x.e)) \div Pow2(23)

Min(a, b) == IF a <= b THEN a ELSE b

\* cmp::min(backoff_maximum, (dur.as_secs() as f32 * backoff_factor) as u64)
new_dur(dur, cfg) ==
    Min(cfg.backoff_maximum, F32AsU64(F32Mul(U64AsF32(dur), cfg.backoff_factor)))

\* transit_err with the Init arm backing off by backoff_maximum
transit_err_init_maximum(st, cfg) ==
    CASE st.tag = "Init"    -> StateBackoff(cfg.backoff_maximum)
      [] st.tag = "Poll"    -> StateInit
      [] st.tag = "Backoff" -> StateBackoff(new_dur(st.dur, cfg))

\* transit_err with the Poll arm backing off instead of re-initializing
transit_err_poll_backoff(st, cfg) ==
    CASE st.tag = "Init"    -> StateBackoff(cfg.initial_max_waiting)
      [] st.tag = "Poll"    -> StateBackoff(cfg.initial_max_waiting)
      [] st.tag = "Backoff" -> StateBackoff(new_dur(st.dur, cfg))

\* Listener::transit_err, as a function of the state and the configuration
transit_err(st, cfg) ==
    CASE st.tag = "Init"    -> StateBackoff(cfg.initial_max_waiting)
      [] st.tag = "Poll"    -> StateInit
      [] st.tag = "Backoff" -> StateBackoff(new_dur(st.dur, cfg))

----------------------------------------------------------------------------
(* Datagrams and their decoding                                            *)

INTERRUPT_BIT == 32768

Statuses == {0, 1, INTERRUPT_BIT, INTERRUPT_BIT + 1}

\* status & 0x00008000 != 0
InterruptBitSet(status) == (status \div INTERRUPT_BIT) % 2 = 1

\* What the socket can deliver to one recv.  Only the parts the listener's
\* decoders look at are kept:
\*   hdr_ok   the 16 header bytes parse (magic, packet type, payload type)
\*            and the declared payload is present
\*   error    the header's error byte
\*   psize    the header's payload_size: 0, shorter than a poll response
\*            (16, a discover response) or a whole poll response (36)
\*   disc_ok  the payload decodes as a discover::Response (its length
\*            bytes are 6 or 8 and 4 or 16 and the addresses are present;
\*            the 4-byte preamble is not looked at)
\*   status, session_id, action_id, desc_ok (the 20 descriptor bytes are
\*            all valid enum values): the fields of a RawResponse
POLL_RESPONSE_SIZE == 36
DISCOVER_RESPONSE_SIZE == 16

PollBodies ==
    [ status : Statuses, session_id : 0..MaxId, action_id : 0..MaxId,
      desc_ok : BOOLEAN ]

Datagram(hdr_ok, error, psize, disc_ok, body) ==
    [ hdr_ok |-> hdr_ok, error |-> error, psize |-> psize,
      disc_ok |-> disc_ok, status |-> body.status,
      session_id |-> body.session_id, action_id |-> body.action_id,
      desc_ok |-> body.desc_ok ]

ZeroBody == [status |-> 0, session_id |-> 0, action_id |-> 0, desc_ok |-> TRUE]

Datagrams ==
    { Datagram(FALSE, 0, 0, FALSE, ZeroBody) }
    \cup { Datagram(TRUE, e, 0, FALSE, ZeroBody) : e \in {0, 1} }
    \cup { Datagram(TRUE, e, DISCOVER_RESPONSE_SIZE, ok, ZeroBody) :
               e \in {0, 1}, ok \in BOOLEAN }
    \cup { Datagram(TRUE, e, POLL_RESPONSE_SIZE, FALSE, b) :
               e \in {0, 1}, b \in PollBodies }
    \cup { Datagram(TRUE, 0, POLL_RESPONSE_SIZE, TRUE, ZeroBody) }

Ok(v) == [ok |-> TRUE, v |-> v, e |-> "none"]
Err(e) == [ok |-> FALSE, v |-> None, e |-> e]

\* TryFrom<&RawResponse> for poll::Response
PollResponseTryFrom(raw) ==
    IF InterruptBitSet(raw.status)
    THEN IF raw.desc_ok
         THEN Ok([ status |-> raw.status, session_id |-> None,
                   action_id |-> Some(raw.action_id), interrupt |-> TRUE ])
         ELSE Err("parse")
    ELSE Ok([ status |-> raw.status, session_id |-> Some(raw.session_id),
              action_id |-> None, interrupt |-> FALSE ])

\* Deserialize for poll::Response (SizedDeserialize, SIZE = 36)
PollResponseDeserialize(dg) ==
    IF dg.psize < POLL_RESPONSE_SIZE THEN Err("parse")
    ELSE PollResponseTryFrom(dg)

NoResponse ==
    [status |-> 0, session_id |-> None, action_id |-> None, interrupt |-> FALSE]

\* Deserialize for discover::Response; the listener ignores its contents
DiscoverResponseDeserialize(dg) ==
    IF dg.disc_ok THEN Ok(NoResponse) ELSE Err("parse")

ChannelRecv_error_only(dg, T) ==
    IF ~dg.hdr_ok THEN Err("parse")
    ELSE IF dg.error # 0 THEN Err("remote")
    ELSE IF T = "discover" THEN DiscoverResponseDeserialize(dg)
    ELSE PollResponseDeserialize(dg)

\* Channel::recv once the socket delivered dg; T is "discover" or "poll"
ChannelRecv(dg, T) ==
    IF ~dg.hdr_ok THEN Err("parse")
    ELSE IF ~(dg.error = 0 \/ dg.psize > 0) THEN Err("remote")
    ELSE IF T = "discover" THEN DiscoverResponseDeserialize(dg)
    ELSE PollResponseDeserialize(dg)

----------------------------------------------------------------------------
(* History records                                                         *)

Op(op, what, seq, sid, aid, host, deadline, ok, r) ==
    [op |-> op, what |-> what, seq |-> seq, sid |-> sid, aid |-> aid,
     host |-> host, deadline |-> deadline, ok |-> ok, r |-> r]

\* Channel::reset_sequence was called
OpReset == Op("reset_sequence", "none", 0, 0, 0, "none", 0, TRUE, NoResponse)

\* a command went out: its kind (Discover, or the poll type of a Poll
\* payload), the header sequence, the body fields and the deadline it was
\* sent under
OpSend(kind, seq, sid, aid, host, deadline) ==
    Op("send", kind, seq, sid, aid, host, deadline, TRUE, NoResponse)

\* Channel::recv returned the decoded response r of type T under a deadline
OpRecv(T, deadline, r) ==
    Op("recv", T, 0, 0, 0, "none", deadline, TRUE, r)

\* self.session_id was assigned by try_init
OpStore(sid) == Op("store", "session_id", 0, sid, 0, "none", 0, TRUE, NoResponse)

\* launch was called; ok: the child was spawned
OpLaunch(ok) == Op("launch", "command", 0, 0, 0, "none", 0, ok, NoResponse)

\* sleep(secs)
OpSleep(secs) == Op("sleep", "none", 0, 0, 0, "none", secs, TRUE, NoResponse)

----------------------------------------------------------------------------
(* The listener                                                            *)

\* reset_sequence that leaves the counter alone
reset_sequence_keep(seq) == seq

\* Channel::reset_sequence: the new value of the counter
reset_sequence(seq) == 0

\* The deadline Listener::next passes to try_init in State::Init and uses
\* for the sends and recvs of a poll round in State::Poll
InitialDeadline(cfg) == cfg.initial_max_waiting

\* State::Backoff retrying under the initial deadline
BackoffDeadline_initial(dur, cfg) == cfg.initial_max_waiting

\* The deadline Listener::next passes to try_init in State::Backoff(dur)
BackoffDeadline(dur, cfg) == dur

\* try_init taking session id 0 from an interrupt: unwrap_or_default()
FirstPollSessionId_default(r) ==
    IF r.session_id.some THEN Ok(r.session_id.v) ELSE Ok(0)

\* try_init: resp.session_id().ok_or_else(|| anyhow!("unexpected interrupt
\* during first poll"))
FirstPollSessionId(r) ==
    IF r.session_id.some THEN Ok(r.session_id.v)
    ELSE Err("unexpected interrupt during first poll")

\* the poll round storing resp.session_id().unwrap_or_default()
UpdateSessionId_default(stored, r) == UnwrapOr(r.session_id, 0)

\* Listener::next: if let Some(session_id) = resp.session_id()
\*                     { self.session_id = session_id; }
UpdateSessionId(stored, r) ==
    IF r.session_id.some THEN r.session_id.v ELSE stored

\* Listener::next: resp.status() == 0x8000
IsInterruptStatus(status) == status = 32768

\* a Reset command that acknowledges action 0 whatever the response said
ResetCommand_no_action(stored, r) ==
    [session_id |-> stored, host |-> Hostname, action_id |-> 0]

\* a Reset command that does not echo the session id
ResetCommand_zero_session(stored, r) ==
    [session_id |-> 0, host |-> Hostname,
     action_id |-> UnwrapOr(r.action_id, 0)]

\* Listener::next: the fields of the Reset command built after an interrupt
ResetCommand(stored, r) ==
    [session_id |-> stored, host |-> Hostname,
     action_id |-> UnwrapOr(r.action_id, 0)]

\* `self.launch(interrupt)?;`: a failed spawn ends the round
LaunchAborts_propagate(spawn_ok) == ~spawn_ok

\* Listener::next: `ignore_err(self.launch(interrupt));` - whether the
\* result of launch makes the round return early with an error
LaunchAborts(spawn_ok) == FALSE

\* The idle values of the variables a specification does not use
NoCall == [fn |-> "none"]
NoRet == [fn |-> "none"]
NoScan == [pc |-> "none"]

\* The history of the packets a channel put on the wire
NoneSent == [prev |-> None, cur |-> None]
Sent(ls, seq) == [prev |-> ls.cur, cur |-> Some(seq)]

\* Listener::new, then the first iteration of the loop of listen()
Init ==
    /\ config \in Configs
    /\ state = StateInit
    /\ session_id = 0
    /\ sequence = 0
    /\ pc = "next"
    /\ max_waiting = 0
    /\ resp = NoResponse
    /\ ops = << >>
    /\ entered = StateInit
    /\ result = "none"
    /\ err = "none"
    /\ last_sent = NoneSent
    /\ call = NoCall
    /\ ret = NoRet
    /\ scan = NoScan

\* listen(): next() returned Ok(new_state)
ReturnOk(new_state) ==
    /\ state' = new_state
    /\ result' = "ok"
    /\ err' = "none"
    /\ pc' = "next"

\* `listener.next().await?`: the error ends listen()
ReturnErr_propagate(e) ==
    /\ state' = state
    /\ result' = "err"
    /\ err' = e
    /\ pc' = "returned"

\* listen(): next() returned Err(e): warn and transit_err
ReturnErr(e) ==
    /\ state' = transit_err(state, config)
    /\ result' = "err"
    /\ err' = e
    /\ pc' = "next"

\* Outcomes of timeout(max_waiting, channel.send(..)).await: the send
\* completed, the deadline elapsed first, or the socket reported an error
SendOutcomes == {"ok", "elapsed", "io"}

WireSequence_next(seq) == (seq + 1) % U16

\* Channel::send: PacketBuilder .sequence(self.sequence.0), read before the
\* increment
WireSequence(seq) == seq

SequenceAfterSend_always(seq, o) == (seq + 1) % U16

\* Channel::send: `self.socket.send(..).await?` returns early on an error
\* and a timeout drops the future at that await, so `self.sequence += 1`
\* (Wrapping<u16>) runs only after the datagram went out
SequenceAfterSend(seq, o) == IF o = "ok" THEN (seq + 1) % U16 ELSE seq

Send_ignore_error(ptype, sid, aid, host, next_pc) ==
    \E o \in SendOutcomes :
        IF o = "ok"
        THEN /\ ops' = Append(ops, OpSend(ptype, WireSequence(sequence), sid,
                                          aid, host, max_waiting))
             /\ last_sent' = Sent(last_sent, WireSequence(sequence))
             /\ sequence' = SequenceAfterSend(sequence, o)
             /\ pc' = next_pc
             /\ UNCHANGED <<state, result, err>>
        ELSE /\ pc' = next_pc
             /\ sequence' = SequenceAfterSend(sequence, o)
             /\ UNCHANGED <<ops, last_sent, state, result, err>>

\* Channel::send under timeout(): on success the packet carries the current
\* sequence and the counter is incremented; otherwise the step fails
Send(ptype, sid, aid, host, next_pc) ==
    \E o \in SendOutcomes :
        IF o = "ok"
        THEN /\ ops' = Append(ops, OpSend(ptype, WireSequence(sequence), sid,
                                          aid, host, max_waiting))
             /\ last_sent' = Sent(last_sent, WireSequence(sequence))
             /\ sequence' = SequenceAfterSend(sequence, o)
             /\ pc' = next_pc
             /\ UNCHANGED <<state, result, err>>
        ELSE /\ ReturnErr(o)
             /\ sequence' = SequenceAfterSend(sequence, o)
             /\ UNCHANGED <<ops, last_sent>>

\* Listener::next, arm State::Init: try_init(initial_max_waiting) up to its
\* first await
NextInit ==
    /\ pc = "next"
    /\ state.tag = "Init"
    /\ entered' = state
    /\ max_waiting' = InitialDeadline(config)
    /\ sequence' = reset_sequence(sequence)
    /\ ops' = <<OpReset>>
    /\ pc' = "init_send_discover"
    /\ result' = "none"
    /\ err' = "none"
    /\ UNCHANGED <<config, state, session_id, resp, last_sent,
                   call, ret, scan>>

\* Listener::next, arm State::Backoff(dur): try_init(dur) up to its first
\* await
NextBackoff ==
    /\ pc = "next"
    /\ state.tag = "Backoff"
    /\ entered' = state
    /\ max_waiting' = BackoffDeadline(state.dur, config)
    /\ sequence' = reset_sequence(sequence)
    /\ ops' = <<OpReset>>
    /\ pc' = "init_send_discover"
    /\ result' = "none"
    /\ err' = "none"
    /\ UNCHANGED <<config, state, session_id, resp, last_sent,
                   call, ret, scan>>

\* Listener::next, arm State::Poll, up to its first await
NextPoll ==
    /\ pc = "next"
    /\ state.tag = "Poll"
    /\ sequence < MaxSequence
    /\ entered' = state
    /\ max_waiting' = InitialDeadline(config)
    /\ ops' = << >>
    /\ pc' = "poll_send_full"
    /\ result' = "none"
    /\ err' = "none"
    /\ UNCHANGED <<config, state, session_id, sequence, resp, last_sent,
                   call, ret, scan>>

\* try_init: send(PayloadType::Discover, Empty)
InitSendDiscover ==
    /\ pc = "init_send_discover"
    /\ Send("Discover", 0, 0, "none", "init_recv_discover")
    /\ UNCHANGED <<config, session_id, max_waiting, resp, entered, call, ret,
                   scan>>

\* try_init: let _: discover::Response = recv()
InitRecvDiscover ==
    /\ pc = "init_recv_discover"
    /\ \/ \E o \in {"elapsed", "io"} :
             /\ ReturnErr(o)
             /\ UNCHANGED ops
       \/ \E dg \in Datagrams :
             LET r == ChannelRecv(dg, "discover") IN
             IF r.ok
             THEN /\ ops' = Append(ops, OpRecv("discover", max_waiting, r.v))
                  /\ pc' = "init_send_hostonly"
                  /\ UNCHANGED <<state, result, err>>
             ELSE /\ ReturnErr(r.e)
                  /\ UNCHANGED ops
    /\ UNCHANGED <<config, session_id, sequence, max_waiting, resp, entered,
                   last_sent, call, ret, scan>>

\* try_init: send(PayloadType::Poll, HostOnly command with the hostname)
InitSendHostOnly ==
    /\ pc = "init_send_hostonly"
    /\ Send("HostOnly", 0, 0, Hostname, "init_recv_hostonly")
    /\ UNCHANGED <<config, session_id, max_waiting, resp, entered, call, ret,
                   scan>>

\* try_init: let resp: poll::Response = recv(), then
\* self.session_id = resp.session_id().ok_or_else(..)?; Ok(()), then
\* next() returns Ok(State::Poll)
InitRecvHostOnly ==
    /\ pc = "init_recv_hostonly"
    /\ \/ \E o \in {"elapsed", "io"} :
             /\ ReturnErr(o)
             /\ UNCHANGED <<ops, session_id>>
       \/ \E dg \in Datagrams :
             LET r == ChannelRecv(dg, "poll") IN
             IF ~r.ok
             THEN /\ ReturnErr(r.e)
                  /\ UNCHANGED <<ops, session_id>>
             ELSE LET sid == FirstPollSessionId(r.v) IN
                  IF ~sid.ok
                  THEN /\ ReturnErr(sid.e)
                       /\ ops' = Append(ops, OpRecv("poll", max_waiting, r.v))
                       /\ UNCHANGED session_id
                  ELSE /\ session_id' = sid.v
                       /\ ops' = ops \o <<OpRecv("poll", max_waiting, r.v),
                                          OpStore(sid.v)>>
                       /\ ReturnOk(StatePoll)
    /\ UNCHANGED <<config, sequence, max_waiting, resp, entered,
                   last_sent, call, ret, scan>>

\* poll round: send(PayloadType::Poll, Full command with the stored
\* session_id, the hostname and the current datetime)
PollSendFull ==
    /\ pc = "poll_send_full"
    /\ Send("Full", session_id, 0, Hostname, "poll_recv_full")
    /\ UNCHANGED <<config, session_id, max_waiting, resp, entered, call, ret,
                   scan>>

\* poll round: let resp: poll::Response = recv(); update the session id;
\* on status 0x8000 launch the command (the spawn succeeds or fails) and go
\* on to send the Reset, otherwise go on to the sleep
PollRecvFull ==
    /\ pc = "poll_recv_full"
    /\ \/ \E o \in {"elapsed", "io"} :
             /\ ReturnErr(o)
             /\ UNCHANGED <<ops, session_id, resp>>
       \/ \E dg \in Datagrams, spawn_ok \in BOOLEAN :
             LET r == ChannelRecv(dg, "poll") IN
             IF ~r.ok
             THEN /\ ReturnErr(r.e)
                  /\ UNCHANGED <<ops, session_id, resp>>
             ELSE /\ session_id' = UpdateSessionId(session_id, r.v)
                  /\ resp' = r.v
                  /\ IF ~IsInterruptStatus(r.v.status)
                     THEN /\ ops' = Append(ops, OpRecv("poll", max_waiting, r.v))
                          /\ pc' = "poll_sleep"
                          /\ UNCHANGED <<state, result, err>>
                     ELSE IF ~r.v.interrupt
                     THEN /\ ops' = Append(ops, OpRecv("poll", max_waiting, r.v))
                          /\ pc' = "poll_send_reset"
                          /\ UNCHANGED <<state, result, err>>
                     ELSE /\ ops' = ops \o <<OpRecv("poll", max_waiting, r.v),
                                             OpLaunch(spawn_ok)>>
                          /\ IF LaunchAborts(spawn_ok)
                             THEN ReturnErr("launch")
                             ELSE /\ pc' = "poll_send_reset"
                                  /\ UNCHANGED <<state, result, err>>
    /\ UNCHANGED <<config, sequence, max_waiting, entered, last_sent,
                   call, ret, scan>>

\* poll round: send(PayloadType::Poll, Reset command)
PollSendReset ==
    /\ pc = "poll_send_reset"
    /\ LET c == ResetCommand(session_id, resp)
       IN  Send("Reset", c.session_id, c.action_id, c.host, "poll_recv_reset")
    /\ UNCHANGED <<config, session_id, max_waiting, resp, entered, call, ret,
                   scan>>

\* poll round: let _: poll::Response = recv()
PollRecvReset ==
    /\ pc = "poll_recv_reset"
    /\ \/ \E o \in {"elapsed", "io"} :
             /\ ReturnErr(o)
             /\ UNCHANGED ops
       \/ \E dg \in Datagrams :
             LET r == ChannelRecv(dg, "poll") IN
             IF r.ok
             THEN /\ ops' = Append(ops, OpRecv("poll", max_waiting, r.v))
                  /\ pc' = "poll_sleep"
                  /\ UNCHANGED <<state, result, err>>
             ELSE /\ ReturnErr(r.e)
                  /\ UNCHANGED ops
    /\ UNCHANGED <<config, session_id, sequence, max_waiting, resp, entered,
                   last_sent, call, ret, scan>>

\* poll round: sleep(1 s), then next() returns Ok(State::Poll)
PollSleep ==
    /\ pc = "poll_sleep"
    /\ ops' = Append(ops, OpSleep(1))
    /\ ReturnOk(StatePoll)
    /\ UNCHANGED <<config, session_id, sequence, max_waiting, resp, entered,
                   last_sent, call, ret, scan>>

Next ==
    \/ NextInit
    \/ NextBackoff
    \/ NextPoll
    \/ InitSendDiscover
    \/ InitRecvDiscover
    \/ InitSendHostOnly
    \/ InitRecvHostOnly
    \/ PollSendFull
    \/ PollRecvFull
    \/ PollSendReset
    \/ PollRecvReset
    \/ PollSleep

Spec == Init /\ [][Next]_vars

----------------------------------------------------------------------------
TypeOK ==
    /\ config \in Configs
    /\ state.tag \in {"Init", "Poll", "Backoff"}
    /\ session_id \in 0..MaxId
    /\ sequence \in 0..(U16 - 1)
    /\ result \in {"none", "ok", "err"}

----------------------------------------------------------------------------
(* Properties                                                              *)

IsPrefix(s, t) == Len(s) <= Len(t) /\ s = SubSeq(t, 1, Len(s))

\* the step in progress, or the last step, is a try_init / a poll round
InTryInit == entered.tag \in {"Init", "Backoff"} /\ ops # << >>
InPollRound == entered.tag = "Poll"
Returned == pc = "next" /\ result # "none"

TransportErrors == {"elapsed", "io", "parse", "remote"}
NetworkPcs == {"init_send_discover", "init_recv_discover",
               "init_send_hostonly", "init_recv_hostonly",
               "poll_send_full", "poll_recv_full",
               "poll_send_reset", "poll_recv_reset"}

\* C1: a next() that began in Init and failed leaves the listener in
\* Backoff(initial_max_waiting), whatever the error; a next() that began in
\* Init or Backoff(d) and succeeded leaves it in Poll.
C1_InitOutcome ==
    Returned =>
        /\ (result = "err" /\ entered.tag = "Init"
                => state = StateBackoff(config.initial_max_waiting))
        /\ (result = "ok" /\ entered.tag \in {"Init", "Backoff"}
                => state = StatePoll)

\* a send deadline expired in Init with initial_max_waiting = 3
C1_Witness ==
    /\ Returned /\ result = "err" /\ err = "elapsed"
    /\ entered.tag = "Init" /\ ops = <<OpReset>>
    /\ config.initial_max_waiting = 3
    /\ config.backoff_maximum # 3
    /\ state = StateBackoff(3)

\* C2: whenever a poll round has failed, the listener is in Init, and the
\* step it takes next is try_init under the deadline initial_max_waiting.
C2_PollErrorReinitializes ==
    [][ (Returned /\ result = "err" /\ entered.tag = "Poll")
            => /\ state = StateInit
               /\ pc' = "init_send_discover"
               /\ ops' = <<OpReset>>
               /\ max_waiting' = config.initial_max_waiting ]_vars

\* the Reset response did not arrive in time: the round failed after the
\* launch and the Reset send, and the listener is back in Init
C2_Witness ==
    /\ Returned /\ result = "err" /\ err = "elapsed"
    /\ entered.tag = "Poll" /\ Len(ops) = 4 /\ ops[4].what = "Reset"
    /\ state = StateInit

\* the real-number value the backoff rule names: floor(d * backoff_factor)
ExactFloor(d, f) == (d * f.m * Pow2(f.e)) \div Pow2(23)

\* C3: a next() that began in Backoff(d) and failed leaves the listener in
\* Backoff(min(backoff_maximum, floor(d * backoff_factor))).
C3_BackoffGrowth ==
    (Returned /\ result = "err" /\ entered.tag = "Backoff")
        => state = StateBackoff(Min(config.backoff_maximum,
                                    ExactFloor(entered.dur,
                                               config.backoff_factor)))

\* the operations of a complete try_init under deadline t that stores sid
TryInitOps(t, sid, r1, r2) ==
    << OpReset,
       OpSend("Discover", 0, 0, 0, "none", t),
       OpRecv("discover", t, r1),
       OpSend("HostOnly", 1, 0, 0, Hostname, t),
       OpRecv("poll", t, r2),
       OpStore(sid) >>

\* C4: the operations of every try_init are an initial part of: reset the
\* sequence, send Discover (sequence 0), receive the discover response, send
\* HostOnly with the hostname (sequence 1), receive the poll response, store
\* its session id; the whole list exactly when it succeeds.
C4_TryInitOrder ==
    InTryInit =>
        /\ \E r1, r2 \in {o.r : o \in {ops[i] : i \in DOMAIN ops}} :
              IsPrefix(ops, TryInitOps(max_waiting, session_id, r1, r2))
        /\ pc = "init_send_discover" => Len(ops) = 1
        /\ pc = "init_recv_discover" => Len(ops) = 2
        /\ pc = "init_send_hostonly" => Len(ops) = 3
        /\ pc = "init_recv_hostonly" => Len(ops) = 4
        /\ (Returned /\ result = "ok") => Len(ops) = 6
        /\ (Returned /\ result = "err") => Len(ops) <= 5
        /\ Len(ops) = 6 => ops[5].r.session_id = Some(session_id)

\* a re-initialization out of Backoff after poll rounds had advanced the
\* sequence, completed
C4_Witness ==
    /\ Returned /\ result = "ok" /\ entered.tag = "Backoff"
    /\ Len(ops) = 6 /\ ops[2].seq = 0 /\ ops[4].seq = 1
    /\ sequence = 2 /\ session_id = 1

\* C5: when the response to the HostOnly poll has the interrupt bit set,
\* try_init fails with "unexpected interrupt during first poll", the
\* listener is not in Poll, nothing was launched and no Reset was sent.
C5_InterruptInFirstPoll ==
    (InTryInit /\ Returned /\ Len(ops) >= 5
        /\ InterruptBitSet(ops[5].r.status))
        => /\ result = "err"
           /\ err = "unexpected interrupt during first poll"
           /\ state.tag = "Backoff"
           /\ Len(ops) = 5
           /\ \A i \in DOMAIN ops :
                 ops[i].op # "launch" /\ ops[i].what # "Reset"

C5_Witness ==
    /\ InTryInit /\ Returned /\ Len(ops) = 5
    /\ ops[5].r.status = INTERRUPT_BIT
    /\ ops[5].r.interrupt
    /\ err = "unexpected interrupt during first poll"

\* C6: the Full command of a poll round carries the session id stored when
\* it is sent; once the response is in, the stored session id is the
\* response's if it carries one, and the one the Full carried if not.
C6_SessionContinuity ==
    (InPollRound /\ Len(ops) >= 1) =>
        /\ ops[1].op = "send" /\ ops[1].what = "Full"
        /\ Len(ops) = 1 => session_id = ops[1].sid
        /\ Len(ops) >= 2 =>
              /\ ops[2].op = "recv"
              /\ session_id = IF ops[2].r.session_id.some
                              THEN ops[2].r.session_id.v
                              ELSE ops[1].sid

\* an interrupt response left a nonzero stored session id alone
C6_Witness ==
    /\ InPollRound /\ Len(ops) >= 2
    /\ ~ops[2].r.session_id.some
    /\ ops[1].sid = 1 /\ session_id = 1

\* the operations of a complete poll round that met an interrupt
InterruptRoundOps(t, full, r, spawn_ok, r2) ==
    << full,
       OpRecv("poll", t, r),
       OpLaunch(spawn_ok),
       OpSend("Reset", (full.seq + 1) % U16, full.sid, r.action_id.v,
              Hostname, t),
       OpRecv("poll", t, r2),
       OpSleep(1) >>

\* C7: in a poll round whose Full response has status 0x8000 the operations
\* are an initial part of: launch, send one Reset (stored session id,
\* hostname, the response's action id), receive one response, sleep 1 s;
\* the stored session id stays the one the Full carried, and the round
\* returns Poll exactly after the whole list.
C7_InterruptRound ==
    (InPollRound /\ Len(ops) >= 2 /\ ops[2].r.status = INTERRUPT_BIT) =>
        /\ Len(ops) >= 3
        /\ \E r2 \in {o.r : o \in {ops[i] : i \in DOMAIN ops}} :
              IsPrefix(ops, InterruptRoundOps(max_waiting, ops[1], ops[2].r,
                                              ops[3].ok, r2))
        /\ session_id = ops[1].sid
        /\ pc = "poll_send_reset" => Len(ops) = 3
        /\ pc = "poll_recv_reset" => Len(ops) = 4
        /\ pc = "poll_sleep" => Len(ops) = 5
        /\ (Returned /\ result = "ok") => (Len(ops) = 6 /\ state = StatePoll)
        /\ (Returned /\ result = "err") => Len(ops) \in {3, 4}

\* the Reset response carried another session id and was discarded
C7_Witness ==
    /\ InPollRound /\ Returned /\ result = "ok" /\ Len(ops) = 6
    /\ ops[2].r.status = INTERRUPT_BIT
    /\ ops[2].r.action_id = Some(1) /\ ops[4].aid = 1
    /\ ops[5].r.session_id = Some(0) /\ session_id = 1

\* C8: every Full response with the interrupt bit set is followed by the
\* launch of the command and, if the round succeeds, by a Reset.
C8_EveryInterruptLaunches ==
    (InPollRound /\ Len(ops) >= 2 /\ InterruptBitSet(ops[2].r.status)) =>
        /\ Len(ops) >= 3
        /\ ops[3].op = "launch"
        /\ (Returned /\ result = "ok") =>
              \E i \in DOMAIN ops : ops[i].op = "send" /\ ops[i].what = "Reset"

\* C9: after a failed spawn the round goes on to the Reset exchange; it can
\* fail only by that exchange, and it returns Poll when the exchange
\* succeeds.
C9_LaunchFailureSwallowed ==
    (InPollRound /\ Len(ops) >= 3 /\ ops[3].op = "launch" /\ ~ops[3].ok) =>
        /\ pc \in {"poll_send_reset", "poll_recv_reset", "poll_sleep", "next"}
        /\ pc = "poll_send_reset" <=> (Len(ops) = 3 /\ ~Returned)
        /\ Len(ops) >= 4 => (ops[4].op = "send" /\ ops[4].what = "Reset")
        /\ Len(ops) >= 5 => ops[5].op = "recv"
        /\ (Returned /\ result = "err") => err \in TransportErrors
        /\ (Returned /\ Len(ops) >= 5) => (result = "ok" /\ state = StatePoll)

C9_Witness ==
    /\ InPollRound /\ Returned /\ result = "ok" /\ state = StatePoll
    /\ Len(ops) = 6 /\ ops[3].op = "launch" /\ ~ops[3].ok
    /\ ops[4].what = "Reset"

\* C10 as stated: every send and recv, in every state, is under a deadline
\* of initial_max_waiting seconds.
C10_DeadlineAlwaysInitial ==
    /\ pc \in NetworkPcs => max_waiting = config.initial_max_waiting
    /\ \A i \in DOMAIN ops :
          ops[i].op \in {"send", "recv"}
              => ops[i].deadline = config.initial_max_waiting

\* C10 amended: every send and recv of a step that began in Init or Poll is
\* under a deadline of initial_max_waiting seconds, and every send and recv
\* of a step that began in Backoff(d) is under a deadline of d seconds.
StepDeadline ==
    IF entered.tag = "Backoff" THEN entered.dur
    ELSE config.initial_max_waiting

C10_DeadlinePerState ==
    /\ pc \in NetworkPcs => max_waiting = StepDeadline
    /\ \A i \in DOMAIN ops :
          ops[i].op \in {"send", "recv"} => ops[i].deadline = StepDeadline

\* the HostOnly response is awaited under a backoff of 4 s, twice the
\* initial 2 s
C10_Witness ==
    /\ pc = "init_recv_hostonly"
    /\ entered = StateBackoff(4)
    /\ config.initial_max_waiting = 2
    /\ max_waiting = 4
    /\ Len(ops) = 4 /\ ops[4].deadline = 4

\* A step of the listener that put a packet on the wire
SendOccurs ==
    /\ Len(ops') = Len(ops) + 1
    /\ ops'[Len(ops')].op = "send"

\* C12 as stated: across successive outbound packets of the listener's
\* channel the sequence field strictly increases modulo 2^16 (the new value
\* is ahead of the previous one by 1..32767), re-initialization included
C12_StrictlyIncreasing ==
    [][ (SendOccurs /\ last_sent.cur.some) =>
            ((last_sent'.cur.v + U16 - last_sent.cur.v) % U16)
                \in 1..(U16 \div 2 - 1) ]_vars

\* C12 amended: each outbound packet carries the successor modulo 2^16 of
\* the previous packet's sequence, except that the Discover opening every
\* try_init carries 0 whatever was sent before
C12_SuccessorExceptInit ==
    [][ SendOccurs =>
            /\ last_sent'.cur = Some(ops'[Len(ops')].seq)
            /\ last_sent'.prev = last_sent.cur
            /\ IF ops'[Len(ops')].what = "Discover"
               THEN last_sent'.cur.v = 0
               ELSE /\ last_sent.cur.some
                    /\ last_sent'.cur.v = (last_sent.cur.v + 1) % U16 ]_vars

\* a re-initialization sent its Discover with sequence 0 right after a
\* packet with sequence 2
C12_Witness ==
    /\ pc = "init_recv_discover"
    /\ entered.tag # "Poll"
    /\ last_sent.prev = Some(2)
    /\ last_sent.cur = Some(0)

\* The await points at which a recv is in flight, and the positions of the
\* channel operations (sends and recvs) in a history
RecvPcs == {"init_recv_discover", "init_recv_hostonly",
            "poll_recv_full", "poll_recv_reset"}
ChannelOps(s) == {i \in 1..Len(s) : s[i].op \in {"send", "recv"}}
LastChannelOp(s, n) ==
    CHOOSE i \in ChannelOps(s) :
        i <= n /\ \A j \in ChannelOps(s) : j <= n => j <= i

\* C14: a recv starts only when the channel operation just before it was a
\* completed send, and every completed recv is immediately preceded, among
\* the channel operations, by a completed send, so no two recvs are adjacent
C14_RequestThenResponse ==
    /\ pc \in RecvPcs =>
           /\ ChannelOps(ops) # {}
           /\ ops[LastChannelOp(ops, Len(ops))].op = "send"
    /\ \A i \in ChannelOps(ops) :
           ops[i].op = "recv" =>
               /\ \E j \in ChannelOps(ops) : j < i
               /\ ops[LastChannelOp(ops, i - 1)].op = "send"

\* an interrupt round completed both of its exchanges: Full, response,
\* launch, Reset, response
C14_Witness ==
    /\ pc = "poll_sleep"
    /\ Len(ops) = 5
    /\ ops[1].op = "send" /\ ops[2].op = "recv" /\ ops[3].op = "launch"
    /\ ops[4].op = "send" /\ ops[5].op = "recv"

\* C16: in every state Backoff(d) of the listener, d is at most
\* backoff_maximum
C16_BackoffWithinMaximum ==
    state.tag = "Backoff" => state.dur <= config.backoff_maximum

\* The configurations the command line accepts, as C25 lists them (every
\* factor of Factors is above 1)
AcceptedConfig ==
    /\ config.initial_max_waiting >= 1
    /\ config.backoff_maximum >= config.initial_max_waiting

\* a step of next() ends with an error
StepFails == pc # "next" /\ pc' = "next" /\ result' = "err"

\* C25: under an accepted configuration a failed retry takes Backoff(d) to a
\* Backoff(d') with d' >= d, and with d' > d as long as d is below
\* backoff_maximum, so that a run of failures reaches backoff_maximum
C25_BackoffGrows ==
    [][ (AcceptedConfig /\ StepFails /\ state.tag = "Backoff") =>
            /\ state'.tag = "Backoff"
            /\ state'.dur >= state.dur
            /\ state.dur < config.backoff_maximum => state'.dur > state.dur
      ]_vars

\* the last operation of the step, once the step has made one
LastOp == ops'[Len(ops')]

C27_BackoffWaits ==
    [][ /\ (/\ pc = "next" /\ pc' = "init_send_discover"
            /\ state.tag = "Backoff"
            /\ result = "err" /\ err # "elapsed") =>
               \E i \in 1..Len(ops) :
                   ops[i].op = "sleep" /\ ops[i].deadline >= state.dur
        /\ (Len(ops') > Len(ops) /\ LastOp.op = "sleep") =>
               /\ pc = "poll_sleep"
               /\ LastOp = OpSleep(1)
               /\ state'.tag = "Poll" /\ result' = "ok"
      ]_vars

\* the sends of a step's history
SendsOf(h) == { i \in 1..Len(h) : h[i].op = "send" }

\* C28: the step that ends with an error changes the state only, by
\* transit_err: session_id, the sequence counter and the configuration stay;
\* no step of a try_init that does not succeed changes session_id; and when
\* a try_init fails the counter is the number of its sends that succeeded
C28_ErrorFrame ==
    [][ /\ StepFails =>
              /\ session_id' = session_id
              /\ sequence' = sequence
              /\ config' = config
        /\ (entered'.tag # "Poll" /\ state'.tag # "Poll") =>
              session_id' = session_id
        /\ (StepFails /\ entered.tag # "Poll") =>
              sequence' = Cardinality(SendsOf(ops'))
      ]_vars

\* a try_init failed at the interrupt check after both sends, and the
\* session id of the earlier session is still stored
C28_Witness ==
    /\ pc = "next"
    /\ result = "err"
    /\ err = "unexpected interrupt during first poll"
    /\ entered.tag = "Init"
    /\ session_id = 1
    /\ sequence = 2

LoopPcs ==
    { "next", "init_send_discover", "init_recv_discover", "init_send_hostonly",
      "init_recv_hostonly", "poll_send_full", "poll_recv_full",
      "poll_send_reset", "poll_recv_reset", "poll_sleep" }

\* C30: the listener is always inside the loop of listen(), in one of Init,
\* Poll or Backoff(d) with d >= 0; a step is at most seven operations long
\* and at each of them something can happen next (an outcome or the expiry
\* of the deadline), whatever errors occurred before; the exception is the
\* poll round this model does not start because the counter is at
\* MaxSequence
C30_NeverTerminal ==
    /\ pc \in LoopPcs
    /\ state.tag \in {"Init", "Poll", "Backoff"}
    /\ state.dur >= 0
    /\ Len(ops) <= 7
    /\ \/ ENABLED Next
       \/ pc = "next" /\ state.tag = "Poll" /\ sequence >= MaxSequence

\* the loop goes on after an error: a failed attempt has lengthened the
\* back-off and the listener is about to retry
C30_Witness ==
    /\ pc = "next"
    /\ result = "err"
    /\ err = "io"
    /\ state.tag = "Backoff"
    /\ state.dur > config.initial_max_waiting

----------------------------------------------------------------------------
(* The channel on its own: Channel::send and Channel::reset_sequence        *)
(* applied to a counter that starts near 0 or near the wrap of the u16.     *)

MaxStart == 4
MaxSends == 4

StartSequences == (0..(MaxStart - 1)) \cup ((U16 - MaxStart)..(U16 - 1))

\* The listener's variables while a specification studies something else
IdleConfig ==
    [ initial_max_waiting |-> 1,
      backoff_factor      |-> [m |-> 8388608, e |-> 1],
      backoff_maximum     |-> 1 ]

ListenerIdle ==
    /\ config = IdleConfig
    /\ state = StateInit
    /\ session_id = 0
    /\ pc = "none"
    /\ max_waiting = 0
    /\ resp = NoResponse
    /\ ops = << >>
    /\ entered = StateInit
    /\ result = "none"
    /\ err = "none"

listener_vars ==
    <<config, state, session_id, pc, max_waiting, resp, ops, entered, result,
      err>>

\* A channel whose counter stands at s0 and that has sent nothing since
ChannelCall(s0) == [fn |-> "Channel::send", s0 |-> s0]
ChannelRet(n, outcome, wire) ==
    [fn |-> "Channel::send", n |-> n, outcome |-> outcome, wire |-> wire]

ChannelInit ==
    /\ ListenerIdle
    /\ sequence \in StartSequences
    /\ call = ChannelCall(sequence)
    /\ ret = ChannelRet(0, "none", None)
    /\ last_sent = NoneSent
    /\ scan = NoScan

\* Channel::send, possibly under a timeout(): the packet is built with
\* header sequence self.sequence.0, and the counter moves per the outcome
ChannelSend ==
    /\ call.fn = "Channel::send"
    /\ ret.n < MaxSends
    /\ \E o \in SendOutcomes :
          /\ sequence' = SequenceAfterSend(sequence, o)
          /\ ret' = IF o = "ok"
                    THEN ChannelRet(ret.n + 1, o, Some(WireSequence(sequence)))
                    ELSE ChannelRet(ret.n, o, ret.wire)
          /\ last_sent' = IF o = "ok"
                          THEN Sent(last_sent, WireSequence(sequence))
                          ELSE last_sent
    /\ UNCHANGED <<listener_vars, call, scan>>

\* Channel::reset_sequence; the count of sends starts over from the new value
ChannelResetSequence ==
    /\ call.fn = "Channel::send"
    /\ ret.outcome # "reset"
    /\ sequence' = reset_sequence(sequence)
    /\ call' = ChannelCall(sequence')
    /\ ret' = ChannelRet(0, "reset", None)
    /\ UNCHANGED <<listener_vars, last_sent, scan>>

ChannelNext ==
    \/ ChannelSend
    \/ ChannelResetSequence

ChannelSpec == ChannelInit /\ [][ChannelNext]_vars

\* C11: with the counter at s0 and no reset in between, the k-th successful
\* send carries header sequence (s0 + k - 1) mod 2^16 and leaves the counter
\* at (s0 + k) mod 2^16; a send that fails or is cancelled by a timeout is
\* not counted and leaves the counter where it was
C11_SequencePerSend ==
    call.fn = "Channel::send" =>
        /\ sequence = (call.s0 + ret.n) % U16
        /\ ret.n >= 1 => ret.wire = Some((call.s0 + ret.n - 1) % U16)

\* the counter wrapped from 65535 to 0, and the send after that timed out
C11_Witness ==
    /\ call.fn = "Channel::send"
    /\ call.s0 = U16 - 1
    /\ ret.n = 2
    /\ ret.wire = Some(0)
    /\ ret.outcome = "elapsed"
    /\ sequence = 1

----------------------------------------------------------------------------
(* Channel::recv on its own, applied to one datagram                        *)

\* Header error bytes: none, and two nonzero codes
ErrorBytes == {0, 1, 255}

PayloadSizes == {0, DISCOVER_RESPONSE_SIZE, POLL_RESPONSE_SIZE}

PayloadTypes == {"discover", "poll"}

\* Datagrams with every combination of header validity, error byte and
\* payload size; a discover response cannot be decoded out of no payload
RecvDatagrams ==
    { Datagram(h, e, p, d, b) :
          h \in BOOLEAN, e \in ErrorBytes, p \in PayloadSizes,
          d \in {FALSE}, b \in PollBodies }
    \cup { Datagram(h, e, p, TRUE, b) :
          h \in BOOLEAN, e \in ErrorBytes,
          p \in PayloadSizes \ {0}, b \in PollBodies }

RecvCalls ==
    { [fn |-> "Channel::recv", dg |-> dg, T |-> T] :
          dg \in RecvDatagrams, T \in PayloadTypes }

\* Everything but the operation under study is at rest
AtRest ==
    /\ ListenerIdle
    /\ sequence = 0
    /\ last_sent = NoneSent
    /\ scan = NoScan

RecvInit ==
    /\ AtRest
    /\ call \in RecvCalls
    /\ ret = NoRet

\* let payload: T = channel.recv().await
ApplyChannelRecv ==
    /\ call.fn = "Channel::recv"
    /\ ret = NoRet
    /\ ret' = [fn |-> call.fn, r |-> ChannelRecv(call.dg, call.T)]
    /\ UNCHANGED <<listener_vars, sequence, last_sent, call, scan>>

RecvNext == ApplyChannelRecv

RecvSpec == RecvInit /\ [][RecvNext]_vars

\* C13: recv fails with the remote error exactly when the header parsed and
\* has error # 0 and payload_size = 0; with error = 0, or with error # 0 and
\* a payload, it returns what decoding the payload as T returns, the decoded
\* value or the parse error
C13_RemoteErrorExactly ==
    (call.fn = "Channel::recv" /\ ret # NoRet) =>
        LET dg == call.dg
            remote == dg.hdr_ok /\ dg.error # 0 /\ dg.psize = 0
        IN  /\ (ret.r = Err("remote")) <=> remote
            /\ (dg.hdr_ok /\ ~remote) =>
                   ret.r = IF call.T = "discover"
                           THEN DiscoverResponseDeserialize(dg)
                           ELSE PollResponseDeserialize(dg)

\* a poll response with a nonzero error byte and a payload was decoded
C13_Witness ==
    /\ call.fn = "Channel::recv"
    /\ call.T = "poll"
    /\ call.dg.hdr_ok
    /\ call.dg.error = 255
    /\ call.dg.psize = POLL_RESPONSE_SIZE
    /\ ret # NoRet
    /\ ret.r.ok
    /\ ret.r.v.session_id = Some(1)

----------------------------------------------------------------------------
(* The discovery scan: scan(), the tasks broadcast_scan spawns and the      *)
(* inquire_device tasks, as interleaved steps of one runtime.               *)

MaxInterfaces == 1
MaxQueue == 2
MaxInquiries == 2

Ifaces == 1..MaxInterfaces

\* scan() before its first statement.  task[i]: "absent" (no such usable
\* interface), "setup" (bind, local_addr, send_to), "recv" (the receive
\* loop), "finished" (returned, not yet joined), "joined", "aborted".
\* queue[i]: the unbounded channel of interface i, "ok" for a decoded
\* discover response and "err" for a socket or parse error.
ScanStart ==
    [ pc |-> "start", result |-> "none", fired |-> FALSE,
      task |-> [i \in Ifaces |-> "absent"],
      queue |-> [i \in Ifaces |-> << >>],
      spawned |-> 0, inq_running |-> 0, inq_finished |-> 0,
      inq_aborted |-> 0 ]

ScanInit ==
    /\ ListenerIdle
    /\ sequence = 0
    /\ last_sent = NoneSent
    /\ call = NoCall
    /\ ret = NoRet
    /\ scan = ScanStart

ScanUnchanged == UNCHANGED <<listener_vars, sequence, last_sent, call, ret>>

\* scan(): NetworkInterface::show()? fails and scan returns the error, or
\* it lists n interfaces with an address, each given a task and a channel;
\* then the deadline is set and the loop is entered
ScanEnumerate ==
    /\ scan.pc = "start"
    /\ \/ scan' = [scan EXCEPT !.pc = "done", !.result = "err"]
       \/ \E n \in 0..MaxInterfaces :
             scan' = [scan EXCEPT
                         !.pc = "select",
                         !.task = [i \in Ifaces |->
                                       IF i <= n THEN "setup" ELSE "absent"]]
    /\ ScanUnchanged

\* broadcast_scan's task: bind, local_addr and send_to all succeed, or one
\* of them fails and the task returns the error (dropping its sender)
IfaceSetup(i) ==
    /\ scan.pc \in {"select", "shutdown"}
    /\ scan.task[i] = "setup"
    /\ \E s \in {"recv", "finished"} :
          scan' = [scan EXCEPT !.task[i] = s]
    /\ ScanUnchanged

\* broadcast_scan's task: recv_from returned a datagram or an error, the
\* parse gave Ok(resp) or Err, and sender.send(resp) queued it (the
\* receiver lives until scan returns, so the send does not fail)
IfaceDeliver(i) ==
    /\ scan.pc \in {"select", "shutdown"}
    /\ scan.task[i] = "recv"
    /\ Len(scan.queue[i]) < MaxQueue
    /\ \E m \in {"ok", "err"} :
          scan' = [scan EXCEPT !.queue[i] = Append(@, m)]
    /\ ScanUnchanged

\* inquire_device returned, with the identity printed or with an error
InquiryFinish ==
    /\ scan.pc \in {"select", "shutdown"}
    /\ scan.inq_running > 0
    /\ scan' = [scan EXCEPT !.inq_running = @ - 1, !.inq_finished = @ + 1]
    /\ ScanUnchanged

\* select!: Some(..) = map.next(): Ok(resp) spawns inquire_device(resp),
\* Err(e) is logged
SelectStream(i) ==
    /\ scan.pc = "select"
    /\ scan.queue[i] # << >>
    /\ IF Head(scan.queue[i]) = "ok"
       THEN /\ scan.spawned < MaxInquiries
            /\ scan' = [scan EXCEPT !.queue[i] = Tail(@),
                                    !.spawned = @ + 1,
                                    !.inq_running = @ + 1]
       ELSE scan' = [scan EXCEPT !.queue[i] = Tail(@)]
    /\ ScanUnchanged

\* select!: Some(join_result) = task_set.join_next(): a task that returned
\* is removed from the set, its error logged
SelectJoin ==
    /\ scan.pc = "select"
    /\ \/ \E i \in Ifaces :
             /\ scan.task[i] = "finished"
             /\ scan' = [scan EXCEPT !.task[i] = "joined"]
       \/ /\ scan.inq_finished > 0
          /\ scan' = [scan EXCEPT !.inq_finished = @ - 1]
    /\ ScanUnchanged

\* the instant `deadline` passes
DeadlineFires ==
    /\ scan.pc = "select"
    /\ ~scan.fired
    /\ scan' = [scan EXCEPT !.fired = TRUE]
    /\ ScanUnchanged

SelectSleep_when_idle ==
    /\ scan.pc = "select"
    /\ scan.fired
    /\ \A i \in Ifaces : scan.queue[i] = << >>
    /\ scan' = [scan EXCEPT !.pc = "shutdown"]
    /\ ScanUnchanged

\* select!: _ = &mut sleep => break.  The branches are polled in a random
\* order, so the sleep is taken whatever else is ready
SelectSleep ==
    /\ scan.pc = "select"
    /\ scan.fired
    /\ scan' = [scan EXCEPT !.pc = "shutdown"]
    /\ ScanUnchanged

\* task_set.shutdown().await; Ok(()): every task still in the set is
\* aborted and awaited, those that had returned are joined
ScanShutdown ==
    /\ scan.pc = "shutdown"
    /\ scan' = [scan EXCEPT
                   !.pc = "done",
                   !.result = "ok",
                   !.task = [i \in Ifaces |->
                                 IF scan.task[i] \in {"setup", "recv"}
                                 THEN "aborted"
                                 ELSE IF scan.task[i] = "finished"
                                 THEN "joined"
                                 ELSE scan.task[i]],
                   !.inq_aborted = @ + scan.inq_running,
                   !.inq_running = 0,
                   !.inq_finished = 0]
    /\ ScanUnchanged

IfaceSetupSome == \E i \in Ifaces : IfaceSetup(i)
IfaceDeliverSome == \E i \in Ifaces : IfaceDeliver(i)
SelectStreamSome == \E i \in Ifaces : SelectStream(i)

ScanNext ==
    \/ ScanEnumerate
    \/ IfaceSetupSome
    \/ IfaceDeliverSome
    \/ InquiryFinish
    \/ SelectStreamSome
    \/ SelectJoin
    \/ DeadlineFires
    \/ SelectSleep
    \/ ScanShutdown

\* Time passes, a ready branch of select! is eventually taken, and aborted
\* tasks stop at their next await
ScanSpec ==
    /\ ScanInit
    /\ [][ScanNext]_vars
    /\ WF_vars(ScanEnumerate)
    /\ WF_vars(DeadlineFires)
    /\ WF_vars(SelectSleep)
    /\ WF_vars(ScanShutdown)

\* scan returned with no task left running
ScanReturned ==
    /\ scan.pc = "done"
    /\ scan.inq_running = 0
    /\ \A i \in Ifaces : scan.task[i] \notin {"setup", "recv"}

\* C15: once the interfaces are listed, whatever the interface tasks and the
\* inquiries do, the loop is left only after the deadline fired, and scan
\* eventually returns, with every task stopped and with success
C15_ScanTerminates ==
    /\ [](scan.pc \in {"shutdown", "done"} /\ scan.result # "err"
              => scan.fired)
    /\ <>(ScanReturned /\ (scan.result = "err" \/ scan.result = "ok"))
    /\ [](scan.pc = "done" /\ scan.fired => scan.result = "ok")

\* scan returned Ok while the interface's task was still receiving, one
\* response was unread and an inquiry had got no reply
C15_Witness ==
    /\ scan.pc = "done"
    /\ scan.result = "ok"
    /\ scan.inq_aborted = 1
    /\ \E i \in Ifaces : scan.task[i] = "aborted" /\ scan.queue[i] # << >>

----------------------------------------------------------------------------
(* Serialize for poll::Command: the bytes written and the size reported     *)

MAX_HOST_LENGTH == 64

Zeros(n) == [i \in 1..n |-> 0]
BE16(x) == <<x \div 256, x % 256>>
BE32(x) == <<x \div 16777216, (x \div 65536) % 256, (x \div 256) % 256,
             x % 256>>

\* Host::new for a string that fits: its UTF-16 code units, big endian,
\* the rest of the 64 bytes zero
HostBufOf(units) ==
    [i \in 1..MAX_HOST_LENGTH |->
        LET k == (i + 1) \div 2
        IN  IF k > Len(units) THEN 0
            ELSE IF i % 2 = 1 THEN units[k] \div 256 ELSE units[k] % 256]

RECURSIVE Pow10(_)
Pow10(k) == IF k = 0 THEN 1 ELSE 10 * Pow10(k - 1)

\* the w decimal digits of n, in ASCII, zero padded
Digits(n, w) == [i \in 1..w |-> 48 + ((n \div Pow10(w - i)) % 10)]

\* format_into with "[year][month][day][hour][minute][second]"
FormatDatetime(dt) ==
    Digits(dt.year, 4) \o Digits(dt.month, 2) \o Digits(dt.day, 2)
        \o Digits(dt.hour, 2) \o Digits(dt.minute, 2) \o Digits(dt.second, 2)

\* PollType as u16
PollTypeTag(t) ==
    CASE t = "Empty" -> 0
      [] t = "HostOnly" -> 1
      [] t = "Full" -> 2
      [] t = "Reset" -> 5

\* From<&EmptyCommand> for RawEmptyCommand
RawEmptyCommand == Zeros(78)

RawHostOnlyCommand_unk8(host) == Zeros(6) \o host \o Zeros(8)

\* From<&HostOnlyCommand> for RawHostOnlyCommand: pad_1, host, unk_1
RawHostOnlyCommand(host) == Zeros(6) \o host \o Zeros(4)

\* From<&FullCommand> for RawFullCommand: pad_1, session_id, host, unk_1,
\* unk_2, unk_3, datetime, pad_2
RawFullCommand(sid, host, dt) ==
    Zeros(2) \o BE32(sid) \o host \o <<0, 0, 0, 20>> \o Zeros(20)
        \o <<0, 0, 0, 16>> \o FormatDatetime(dt) \o Zeros(2)

\* From<&ResetCommand> for RawResetCommand: pad_1, session_id, host, unk_1,
\* action_id, unk_2
RawResetCommand(sid, host, aid) ==
    Zeros(2) \o BE32(sid) \o host \o <<0, 0, 0, 20>> \o BE32(aid)
        \o Zeros(20)

RawRepr(cmd) ==
    CASE cmd.type = "Empty" -> RawEmptyCommand
      [] cmd.type = "HostOnly" -> RawHostOnlyCommand(cmd.host)
      [] cmd.type = "Full" ->
            RawFullCommand(cmd.session_id, cmd.host, cmd.datetime)
      [] cmd.type = "Reset" ->
            RawResetCommand(cmd.session_id, cmd.host, cmd.action_id)

\* size_of::<Repr>() of the packed structs: the sum of the field widths
SizeOfRepr(t) ==
    CASE t = "Empty" -> 78
      [] t = "HostOnly" -> 6 + MAX_HOST_LENGTH + 4
      [] t = "Full" -> 2 + 4 + MAX_HOST_LENGTH + 4 + 20 + 4 + 14 + 2
      [] t = "Reset" -> 2 + 4 + MAX_HOST_LENGTH + 4 + 4 + 20

\* Serialize for Command: the tag as a big-endian u16, then the variant
CommandSerialize(cmd) == BE16(PollTypeTag(cmd.type)) \o RawRepr(cmd)

\* Serialize::size for Command
CommandSize(cmd) == 2 + SizeOfRepr(cmd.type)

NoDatetime ==
    [year |-> 0, month |-> 1, day |-> 1, hour |-> 0, minute |-> 0,
     second |-> 0]

Datetimes ==
    { [year |-> 2024, month |-> 1, day |-> 2, hour |-> 3, minute |-> 4,
       second |-> 5],
      [year |-> 1999, month |-> 12, day |-> 31, hour |-> 23, minute |-> 59,
       second |-> 59] }

\* "", "H", "host" and a name of 32 units, one of them not ASCII
HostUnits ==
    { << >>, <<72>>, <<104, 111, 115, 116>>,
      [i \in 1..32 |-> IF i = 1 THEN 26085 ELSE 97] }

Hosts == { HostBufOf(u) : u \in HostUnits }

\* u32 identifiers: 0, 1, 0x01020304 and 0x7fffffff
Ids32 == {0, 1, 16909060, 2147483647}

PollCommand(t, sid, host, aid, dt) ==
    [type |-> t, session_id |-> sid, host |-> host, action_id |-> aid,
     datetime |-> dt]

\* The commands CommandBuilder::build can make
PollCommands ==
    { PollCommand("Empty", 0, Zeros(MAX_HOST_LENGTH), 0, NoDatetime) }
    \cup { PollCommand("HostOnly", 0, h, 0, NoDatetime) : h \in Hosts }
    \cup { PollCommand("Full", sid, h, 0, dt) :
               sid \in Ids32, h \in Hosts, dt \in Datetimes }
    \cup { PollCommand("Reset", sid, h, aid, NoDatetime) :
               sid \in Ids32, h \in Hosts, aid \in Ids32 }

CommandInit ==
    /\ AtRest
    /\ call \in { [fn |-> "Command::serialize", cmd |-> c] :
                      c \in PollCommands }
    /\ ret = NoRet

\* command.serialize_to_vec() and command.size()
ApplyCommandSerialize ==
    /\ call.fn = "Command::serialize"
    /\ ret = NoRet
    /\ ret' = [fn |-> call.fn, bytes |-> CommandSerialize(call.cmd),
               size |-> CommandSize(call.cmd)]
    /\ UNCHANGED <<listener_vars, sequence, last_sent, call, scan>>

CommandNext == ApplyCommandSerialize

CommandSpec == CommandInit /\ [][CommandNext]_vars

CommandSerialized == call.fn = "Command::serialize" /\ ret # NoRet

\* C17 as stated: every variant serializes to exactly 80 bytes and size
\* reports 80
C17_AllEightyBytes ==
    CommandSerialized => Len(ret.bytes) = 80 /\ ret.size = 80

\* C17 amended: the serialized command is the 2-byte tag followed by the
\* body, 80 bytes for Empty, 76 for HostOnly, 116 for Full and 100 for
\* Reset, and size reports the number of bytes written
C17_SizePerVariant ==
    CommandSerialized =>
        /\ ret.size = Len(ret.bytes)
        /\ SubSeq(ret.bytes, 1, 2) = <<0, PollTypeTag(call.cmd.type)>>
        /\ Len(ret.bytes) = CASE call.cmd.type = "Empty" -> 80
                              [] call.cmd.type = "HostOnly" -> 76
                              [] call.cmd.type = "Full" -> 116
                              [] call.cmd.type = "Reset" -> 100

\* a Full command for host "H" with its datetime at bytes 100..113
C17_Witness ==
    /\ CommandSerialized
    /\ call.cmd.type = "Full"
    /\ call.cmd.session_id = 16909060
    /\ SubSeq(ret.bytes, 1, 12) = <<0, 2, 0, 0, 1, 2, 3, 4, 0, 72, 0, 0>>
    /\ SubSeq(ret.bytes, 101, 114) =
           <<50, 48, 50, 52, 48, 49, 48, 50, 48, 51, 48, 52, 48, 53>>
    /\ Len(ret.bytes) = 116

----------------------------------------------------------------------------
(* Parse errors (serdes.rs)                                                 *)

\* FormatError::InvalidByte, FormatError::InvalidSlice (inside
\* ParseError::InvalidFormat), ParseError::UnexpectedEnd, and a panic
ParseErr(kind, byte, start, end, actual) ==
    [kind |-> kind, byte |-> byte, start |-> start, end |-> end,
     actual |-> actual]
InvalidByte(byte, offset) == ParseErr("InvalidByte", byte, offset, offset, 0)
InvalidSlice(start, end) == ParseErr("InvalidSlice", 0, start, end, 0)
UnexpectedEnd(expected, actual) ==
    ParseErr("UnexpectedEnd", 0, 0, expected, actual)
Panic == ParseErr("panic", 0, 0, 0, 0)

\* OffsetError::offset_by for FormatError and ParseError: the offset of an
\* InvalidByte, both ends of the span of an InvalidSlice, the expected size
\* of an UnexpectedEnd
OffsetBy(e, by) ==
    CASE e.kind = "InvalidByte" ->
             [e EXCEPT !.start = @ + by, !.end = @ + by]
      [] e.kind = "InvalidSlice" ->
             [e EXCEPT !.start = @ + by, !.end = @ + by]
      [] e.kind = "UnexpectedEnd" -> [e EXCEPT !.end = @ + by]
      [] OTHER -> e

----------------------------------------------------------------------------
(* identity::Response: Serialize and Deserialize                            *)

Colon == 58
Semicolon == 59

\* The number of bytes of the UTF-8 sequence a first byte opens, 0 if the
\* byte cannot open one
Utf8Width(first) ==
    IF first < 128 THEN 1
    ELSE IF first >= 194 /\ first <= 223 THEN 2
    ELSE IF first >= 224 /\ first <= 239 THEN 3
    ELSE IF first >= 240 /\ first <= 244 THEN 4
    ELSE 0

\* Whether c may be the byte j places after the first byte of a sequence
Utf8ContOk(first, j, c) ==
    IF j = 1 /\ first = 224 THEN c >= 160 /\ c <= 191
    ELSE IF j = 1 /\ first = 237 THEN c >= 128 /\ c <= 159
    ELSE IF j = 1 /\ first = 240 THEN c >= 144 /\ c <= 191
    ELSE IF j = 1 /\ first = 244 THEN c >= 128 /\ c <= 143
    ELSE c >= 128 /\ c <= 191

\* str::from_utf8 from the sequence starting at position i (1-based):
\* Utf8Error::valid_up_to and Utf8Error::error_len
RECURSIVE Utf8Scan(_, _)
Utf8Scan(b, i) ==
    IF i > Len(b)
    THEN [ok |-> TRUE, valid_up_to |-> Len(b), error_len |-> None]
    ELSE LET w == Utf8Width(b[i])
             bad == {j \in 1..(w - 1) :
                        \/ i + j > Len(b)
                        \/ ~Utf8ContOk(b[i], j, b[i + j])}
         IN  IF w = 0
             THEN [ok |-> FALSE, valid_up_to |-> i - 1, error_len |-> Some(1)]
             ELSE IF bad = {}
             THEN Utf8Scan(b, i + w)
             ELSE LET j == CHOOSE k \in bad : \A m \in bad : k <= m
                  IN  [ok |-> FALSE, valid_up_to |-> i - 1,
                       error_len |-> IF i + j > Len(b) THEN None ELSE Some(j)]

\* The position of the first c in s, 0 if there is none
IndexOf(s, c) ==
    IF \E i \in 1..Len(s) : s[i] = c
    THEN CHOOSE i \in 1..Len(s) : s[i] = c /\ \A j \in 1..(i - 1) : s[j] # c
    ELSE 0

\* str::split
RECURSIVE Split(_, _)
Split(s, sep) ==
    LET i == IndexOf(s, sep)
    IN  IF i = 0 THEN <<s>>
        ELSE <<SubSeq(s, 1, i - 1)>> \o Split(SubSeq(s, i + 1, Len(s)), sep)

\* str::split_terminator: split, without the last piece if it is empty
SplitTerminator(s, sep) ==
    LET p == Split(s, sep)
    IN  IF p[Len(p)] = << >> THEN SubSeq(p, 1, Len(p) - 1) ELSE p

\* filter_map(|item| item.split_once(':')): the (key, value) pairs of the
\* items that hold a ':'
RECURSIVE SplitOncePairs(_)
SplitOncePairs(items) ==
    IF items = << >> THEN << >>
    ELSE LET item == Head(items)
             i == IndexOf(item, Colon)
         IN  (IF i = 0 THEN << >>
              ELSE << [key |-> SubSeq(item, 1, i - 1),
                       value |-> SubSeq(item, i + 1, Len(item))] >>)
             \o SplitOncePairs(Tail(items))

\* collect::<HashMap<_, _>>(): a later pair replaces an earlier one with
\* the same key
MapOfPairs(pairs) ==
    [k \in {pairs[i].key : i \in 1..Len(pairs)} |->
        LET last == CHOOSE i \in 1..Len(pairs) :
                        /\ pairs[i].key = k
                        /\ \A j \in (i + 1)..Len(pairs) : pairs[j].key # k
        IN  pairs[last].value]

IdentityMap(identity) ==
    MapOfPairs(SplitOncePairs(SplitTerminator(identity, Semicolon)))

IdentityBodyLen_whole(identity_len) == identity_len

\* identity_len -= 2
IdentityBodyLen(identity_len) == identity_len - 2

\* the map_err of str::from_utf8; `buffer` is what follows the two length
\* bytes, and valid_up_to() - 1 underflows when the first byte is invalid
Utf8ErrorMap(u, buffer, identity_len) ==
    IF u.error_len.some /\ u.error_len.v > 1
    THEN InvalidSlice(u.valid_up_to, u.valid_up_to + u.error_len.v)
    ELSE IF u.error_len.some
    THEN IF u.valid_up_to = 0 THEN Panic
         ELSE InvalidByte(buffer[u.valid_up_to], u.valid_up_to - 1)
    ELSE UnexpectedEnd(identity_len + 1, identity_len)

\* Deserialize for identity::Response
IdentityDeserialize(buffer) ==
    IF Len(buffer) < 2 THEN Err(UnexpectedEnd(2, Len(buffer)))
    ELSE LET declared == buffer[1] * 256 + buffer[2]
             rest == SubSeq(buffer, 3, Len(buffer))
         IN  IF declared < 2 THEN Err(InvalidSlice(0, 2))
             ELSE LET identity_len == IdentityBodyLen(declared)
                  IN  IF identity_len > Len(rest)
                      THEN Err(OffsetBy(UnexpectedEnd(identity_len, Len(rest)),
                                        2))
                      ELSE LET identity == SubSeq(rest, 1, identity_len)
                               u == Utf8Scan(identity, 1)
                           IN  IF ~u.ok
                               THEN Err(Utf8ErrorMap(u, rest, identity_len))
                               ELSE Ok([map |-> IdentityMap(identity),
                                        consumed |-> identity_len + 2])

\* Response::as_str_len, over the entries in iteration order
RECURSIVE as_str_len(_, _)
as_str_len(x, order) ==
    IF order = << >> THEN 0
    ELSE Len(Head(order)) + Len(x[Head(order)]) + 2
             + as_str_len(x, Tail(order))

\* Display for identity::Response: "key:value;" per entry
RECURSIVE IdentityText(_, _)
IdentityText(x, order) ==
    IF order = << >> THEN << >>
    ELSE Head(order) \o <<Colon>> \o x[Head(order)] \o <<Semicolon>>
             \o IdentityText(x, Tail(order))

\* Serialize for identity::Response: as_str_len() as a big-endian u16 (an
\* error if it does not fit), then the text
IdentitySerialize(x, order) ==
    IF as_str_len(x, order) >= U16 THEN Err("io")
    ELSE Ok(BE16(as_str_len(x, order)) \o IdentityText(x, order))

\* Serialize::size for identity::Response
IdentitySize(x, order) == 2 + as_str_len(x, order)

\* "A", "MFG", "CLS"; "", "B", "Canon"
IdentityKeys == { <<65>>, <<77, 70, 71>>, <<67, 76, 83>> }
IdentityValues == { << >>, <<66>>, <<67, 97, 110, 111, 110>> }

IdentityMaps == UNION { [D -> IdentityValues] : D \in SUBSET IdentityKeys }

\* The orders a HashMap may iterate a set of keys in
Orders(D) ==
    { f \in [1..Cardinality(D) -> D] :
          \A i, j \in 1..Cardinality(D) : f[i] = f[j] => i = j }

\* 00 20 MFG:Canon;MDL:Dummy;CLS:IMAGE;
ExampleIdentity ==
    <<0, 32, 77, 70, 71, 58, 67, 97, 110, 111, 110, 59, 77, 68, 76, 58, 68,
      117, 109, 109, 121, 59, 67, 76, 83, 58, 73, 77, 65, 71, 69, 59>>

ExampleMap ==
    [k \in {<<77, 70, 71>>, <<77, 68, 76>>, <<67, 76, 83>>} |->
        IF k = <<77, 70, 71>> THEN <<67, 97, 110, 111, 110>>
        ELSE IF k = <<77, 68, 76>> THEN <<68, 117, 109, 109, 121>>
        ELSE <<73, 77, 65, 71, 69>>]

MaxText == 3

\* Texts of "A", ':' and ';'
Texts == UNION { [1..n -> {65, Colon, Semicolon}] : n \in 0..MaxText }

\* Identity payloads: the example, the example followed by more bytes,
\* short texts under every declared length up to one past their end, and
\* texts that are not UTF-8
IdentityBuffers ==
    { ExampleIdentity, ExampleIdentity \o <<0, 0>>, << >>, <<0>> }
    \cup { BE16(n) \o t : t \in Texts, n \in 0..(MaxText + 3) }
    \cup { BE16(Len(t) + 2) \o t :
               t \in { <<255>>, <<65, 255>>, <<65, 195>>, <<195, 40>>,
                       <<226, 130, 40>>, <<65, 226, 130, 40>>,
                       <<240, 159, 146, 40>>, <<226, 130, 172>> } }

IdentityCalls ==
    { [fn |-> "identity::round_trip", x |-> x, order |-> o] :
          x \in {m \in IdentityMaps : Cardinality(DOMAIN m) <= 2},
          o \in UNION { Orders(D) : D \in SUBSET IdentityKeys } }

IdentityInit ==
    /\ AtRest
    /\ \/ call \in { c \in IdentityCalls :
                         {c.order[i] : i \in 1..Len(c.order)} = DOMAIN c.x }
       \/ call \in { [fn |-> "identity::deserialize", buf |-> b] :
                         b \in IdentityBuffers }
    /\ ret = NoRet

\* Response::deserialize(&x.serialize_to_vec()), and x.size()
ApplyIdentityRoundTrip ==
    /\ call.fn = "identity::round_trip"
    /\ ret = NoRet
    /\ LET w == IdentitySerialize(call.x, call.order)
       IN  ret' = [fn |-> call.fn, bytes |-> w.v,
                   size |-> IdentitySize(call.x, call.order),
                   r |-> IdentityDeserialize(w.v)]
    /\ UNCHANGED <<listener_vars, sequence, last_sent, call, scan>>

\* Response::deserialize(buf)
ApplyIdentityDeserialize ==
    /\ call.fn = "identity::deserialize"
    /\ ret = NoRet
    /\ ret' = [fn |-> call.fn, r |-> IdentityDeserialize(call.buf)]
    /\ UNCHANGED <<listener_vars, sequence, last_sent, call, scan>>

IdentityNext ==
    \/ ApplyIdentityRoundTrip
    \/ ApplyIdentityDeserialize

IdentitySpec == IdentityInit /\ [][IdentityNext]_vars

\* C18: deserialize(serialize(x)) succeeds with a mapping equal to x and a
\* consumed length equal to size(x), and the length field written is the
\* total length of what was written, the two length bytes included
C18_IdentityRoundTrip ==
    (call.fn = "identity::round_trip" /\ ret # NoRet) =>
        /\ ret.r.ok
        /\ ret.r.v.map = call.x
        /\ ret.r.v.consumed = ret.size
        /\ ret.bytes[1] * 256 + ret.bytes[2] = Len(ret.bytes)

IdentityDeserialized == call.fn = "identity::deserialize" /\ ret # NoRet

\* C20 as stated: the example payload yields the three entries and a
\* consumed length of 34
C20_ExampleConsumes34 ==
    (IdentityDeserialized /\ call.buf = ExampleIdentity) =>
        /\ ret.r.ok
        /\ ret.r.v.map = ExampleMap
        /\ ret.r.v.consumed = 34

\* C20 amended: the example payload yields the three entries and a consumed
\* length of 32, the declared total length
C20_ExampleConsumes32 ==
    (IdentityDeserialized /\ call.buf = ExampleIdentity) =>
        /\ ret.r.ok
        /\ ret.r.v.map = ExampleMap
        /\ ret.r.v.consumed = 32

\* the example payload was deserialized
C20_Witness ==
    /\ IdentityDeserialized
    /\ call.buf = ExampleIdentity
    /\ ret.r.ok
    /\ Cardinality(DOMAIN ret.r.v.map) = 3

\* the body of a deserialized payload whose length field is >= 2 and whose
\* declared body is fully present
IdentityBodyOf(buf) == SubSeq(buf, 3, buf[1] * 256 + buf[2])

IdentityBodyPresent(buf) ==
    /\ Len(buf) >= 2
    /\ buf[1] * 256 + buf[2] >= 2
    /\ buf[1] * 256 + buf[2] <= Len(buf)

\* C21 as stated: a fully present body that is not valid UTF-8 makes
\* deserialize return a ParseError that locates the offending byte(s) at
\* their offset in the buffer (2 + the position of the first invalid byte),
\* also for position 0 of the body; it never panics and never succeeds
C21_InvalidUtf8Located ==
    (/\ IdentityDeserialized
     /\ IdentityBodyPresent(call.buf)
     /\ ~Utf8Scan(IdentityBodyOf(call.buf), 1).ok) =>
        LET first == Utf8Scan(IdentityBodyOf(call.buf), 1).valid_up_to
        IN  /\ ~ret.r.ok
            /\ ret.r.e.kind # "panic"
            /\ ret.r.e.kind = "InvalidByte" =>
                   /\ ret.r.e.start = 2 + first
                   /\ ret.r.e.byte = call.buf[2 + first + 1]
            /\ ret.r.e.kind = "InvalidSlice" => ret.r.e.start = 2 + first

----------------------------------------------------------------------------
(* The fixed-size decoders on bytes: Header, Interrupt, poll::Response      *)

\* b"BJNP"
MAGIC == <<66, 74, 78, 80>>

\* The discriminants of the make_u8_field! enums
PacketType == {1, 2, 129, 130}
PayloadType == {1, 2, 16, 17, 32, 33, 48, 50}
ColorMode == {1, 2}
Size == {1, 2, 8, 9, 11}
Format == {1, 2, 3, 4}
DPI == {1, 2, 3, 4}
Source == {1, 2}
FeederType == {1, 2}
FeederOrientation == {1, 2}

\* make_u8_field!: TryFrom<u8> for the enum
U8TryFrom(value, field) ==
    IF value \in field THEN Ok(value) ELSE Err(InvalidByte(value, 0))

\* OffsetError::offset_by for Result
ResultOffsetBy(r, by) == IF r.ok THEN r ELSE Err(OffsetBy(r.e, by))

\* Deserialize for T: SizedDeserialize: the buffer holds SIZE bytes, then
\* TryFrom<&Repr>; r is what the conversion returns
SizedDeserialize(buffer, SIZE, r) ==
    IF Len(buffer) < SIZE THEN Err(UnexpectedEnd(SIZE, Len(buffer))) ELSE r

\* size_of::<RawHeader>() and size_of::<RawInterrupt>()
HEADER_SIZE == 16
INTERRUPT_SIZE == 20

\* TryFrom<&RawHeader> for Header.  Bytes 0..3 magic, 4 packet_type,
\* 5 payload_type, 6 error, 7 unk_1, 8..9 sequence, 10..11 job_id,
\* 12..15 len (raw[i + 1] is the byte at offset i)
HeaderTryFrom(raw) ==
    IF SubSeq(raw, 1, 4) # MAGIC THEN Err(InvalidSlice(0, 4))
    ELSE LET packet_type == U8TryFrom(raw[5], PacketType)
             payload_type == ResultOffsetBy(U8TryFrom(raw[6], PayloadType), 5)
         IN  IF ~packet_type.ok THEN packet_type
             ELSE IF ~payload_type.ok THEN payload_type
             ELSE Ok([ packet_type |-> packet_type.v,
                       payload_type |-> payload_type.v,
                       error |-> raw[7],
                       sequence |-> raw[9] * 256 + raw[10],
                       job_id |-> raw[11] * 256 + raw[12],
                       payload_size |->
                           ((raw[13] * 256 + raw[14]) * 256 + raw[15]) * 256
                               + raw[16] ])

HeaderDeserialize(buffer) ==
    SizedDeserialize(buffer, HEADER_SIZE,
                     IF Len(buffer) < HEADER_SIZE THEN Err(Panic)
                     ELSE HeaderTryFrom(buffer))

\* TryFrom<&RawInterrupt> for Interrupt: the conversions in the order the
\* code evaluates them, the first failure returned as it is.  Offsets:
\* color_mode 7, source 8, feeder_type 9, size 10, format 11, dpi 12,
\* feeder_orientation 16
InterruptTryFrom(raw) ==
    LET steps ==
            << IF raw[10] # 0 THEN U8TryFrom(raw[10], FeederType) ELSE Ok(0),
               IF raw[17] # 0 THEN U8TryFrom(raw[17], FeederOrientation)
               ELSE Ok(0),
               U8TryFrom(raw[8], ColorMode),
               U8TryFrom(raw[9], Source),
               U8TryFrom(raw[11], Size),
               U8TryFrom(raw[12], Format),
               U8TryFrom(raw[13], DPI) >>
        failed == {i \in 1..Len(steps) : ~steps[i].ok}
    IN  IF failed # {}
        THEN steps[CHOOSE i \in failed : \A j \in failed : i <= j]
        ELSE Ok([ color_mode |-> raw[8], source |-> raw[9],
                  feeder_type |-> raw[10], size |-> raw[11],
                  format |-> raw[12], dpi |-> raw[13],
                  feeder_orientation |-> raw[17] ])

InterruptDeserialize(buffer) ==
    SizedDeserialize(buffer, INTERRUPT_SIZE,
                     IF Len(buffer) < INTERRUPT_SIZE THEN Err(Panic)
                     ELSE InterruptTryFrom(buffer))

\* TryFrom<&RawResponse> for poll::Response on bytes: status 0..3,
\* session_id 4..7, unk_1 8..11, action_id 12..15, interrupt 16..35
\* u32::from_be_bytes
U32FromBE(b) == b[1] * 16777216 + b[2] * 65536 + b[3] * 256 + b[4]

RawResponseTryFrom_validate_first(raw) ==
    LET status == U32FromBE(SubSeq(raw, 1, 4))
        interrupt == InterruptTryFrom(SubSeq(raw, 17, 36))
    IN  IF ~interrupt.ok THEN interrupt
        ELSE IF InterruptBitSet(status)
        THEN Ok([ status |-> status, session_id |-> None,
                  action_id |-> Some(U32FromBE(SubSeq(raw, 13, 16))),
                  interrupt |-> Some(interrupt.v) ])
        ELSE Ok([ status |-> status,
                  session_id |-> Some(U32FromBE(SubSeq(raw, 5, 8))),
                  action_id |-> None, interrupt |-> None ])

RawResponseTryFrom(raw) ==
    LET status == U32FromBE(SubSeq(raw, 1, 4))
    IN  IF InterruptBitSet(status)
        THEN LET interrupt == InterruptTryFrom(SubSeq(raw, 17, 36))
             IN  IF ~interrupt.ok THEN interrupt
                 ELSE Ok([ status |-> status, session_id |-> None,
                           action_id |-> Some(U32FromBE(SubSeq(raw, 13, 16))),
                           interrupt |-> Some(interrupt.v) ])
        ELSE Ok([ status |-> status,
                  session_id |-> Some(U32FromBE(SubSeq(raw, 5, 8))),
                  action_id |-> None, interrupt |-> None ])

ResponseDeserialize(buffer) ==
    SizedDeserialize(buffer, POLL_RESPONSE_SIZE,
                     IF Len(buffer) < POLL_RESPONSE_SIZE THEN Err(Panic)
                     ELSE RawResponseTryFrom(buffer))

RawHeaderOf(magic, packet_type, payload_type) ==
    magic \o <<packet_type, payload_type>> \o Zeros(10)

RawInterruptOf(cm, src, ft, sz, fmt, dpi, fo) ==
    Zeros(7) \o <<cm, src, ft, sz, fmt, dpi>> \o Zeros(3) \o <<fo>>
        \o Zeros(3)

\* Headers with a good and a bad magic and valid and unknown type bytes,
\* and one that is cut short
HeaderBuffers ==
    { RawHeaderOf(m, pt, pl) :
          m \in {MAGIC, <<66, 74, 78, 88>>},
          pt \in {2, 130, 0, 127}, pl \in {1, 50, 0, 153} }
    \cup { SubSeq(RawHeaderOf(MAGIC, 2, 1), 1, 15) }

\* Descriptors with every field valid or unknown, and one cut short
InterruptBuffers ==
    { RawInterruptOf(c, s, ft, sz, f, d, fo) :
          c \in {1, 9}, s \in {1, 3}, ft \in {0, 1, 7}, sz \in {11, 5},
          f \in {1, 0}, d \in {4, 5}, fo \in {0, 2, 3} }
    \cup { SubSeq(RawInterruptOf(1, 1, 0, 1, 1, 1, 0), 1, 19) }

\* Poll responses without and with the interrupt bit
ResponseBuffers ==
    { BE32(st) \o BE32(sid) \o <<0, 0, 0, 20>> \o BE32(1) \o i :
          st \in {0, 1, INTERRUPT_BIT, INTERRUPT_BIT + 1, 3 * INTERRUPT_BIT},
          sid \in {1, 16909060},
          i \in { RawInterruptOf(c, 1, 0, 1, 1, d, fo) :
                      c \in {1, 9}, d \in {4, 5}, fo \in {0, 3} } }

DecodeFns == {"Header::deserialize", "Interrupt::deserialize",
              "Response::deserialize"}

DecodeInit ==
    /\ AtRest
    /\ \/ call \in { [fn |-> "Header::deserialize", buf |-> b] :
                         b \in HeaderBuffers }
       \/ call \in { [fn |-> "Interrupt::deserialize", buf |-> b] :
                         b \in InterruptBuffers }
       \/ call \in { [fn |-> "Response::deserialize", buf |-> b] :
                         b \in ResponseBuffers }
    /\ ret = NoRet

ApplyHeaderDeserialize ==
    /\ call.fn = "Header::deserialize"
    /\ ret = NoRet
    /\ ret' = [fn |-> call.fn, r |-> HeaderDeserialize(call.buf)]
    /\ UNCHANGED <<listener_vars, sequence, last_sent, call, scan>>

ApplyInterruptDeserialize ==
    /\ call.fn = "Interrupt::deserialize"
    /\ ret = NoRet
    /\ ret' = [fn |-> call.fn, r |-> InterruptDeserialize(call.buf)]
    /\ UNCHANGED <<listener_vars, sequence, last_sent, call, scan>>

ApplyResponseDeserialize ==
    /\ call.fn = "Response::deserialize"
    /\ ret = NoRet
    /\ ret' = [fn |-> call.fn, r |-> ResponseDeserialize(call.buf)]
    /\ UNCHANGED <<listener_vars, sequence, last_sent, call, scan>>

DecodeNext ==
    \/ ApplyHeaderDeserialize
    \/ ApplyInterruptDeserialize
    \/ ApplyResponseDeserialize

DecodeSpec == DecodeInit /\ [][DecodeNext]_vars

\* The enum fields of each decoder's buffer: offset from the start of the
\* buffer and the bytes in range
EnumField(off, valid) == [off |-> off, valid |-> valid]
InterruptFields(base) ==
    { EnumField(base + 7, ColorMode), EnumField(base + 8, Source),
      EnumField(base + 9, FeederType \cup {0}),
      EnumField(base + 10, Size), EnumField(base + 11, Format),
      EnumField(base + 12, DPI),
      EnumField(base + 16, FeederOrientation \cup {0}) }
EnumFields(fn) ==
    CASE fn = "Header::deserialize" ->
             {EnumField(4, PacketType), EnumField(5, PayloadType)}
      [] fn = "Interrupt::deserialize" -> InterruptFields(0)
      [] fn = "Response::deserialize" -> InterruptFields(16)

\* the decoder gets as far as converting its enum fields
ReachesEnums ==
    CASE call.fn = "Header::deserialize" ->
             Len(call.buf) >= HEADER_SIZE /\ SubSeq(call.buf, 1, 4) = MAGIC
      [] call.fn = "Interrupt::deserialize" ->
             Len(call.buf) >= INTERRUPT_SIZE
      [] call.fn = "Response::deserialize" ->
             /\ Len(call.buf) >= POLL_RESPONSE_SIZE
             /\ InterruptBitSet(call.buf[3] * 256 + call.buf[4])

\* C19: a buffer with an out-of-range enum byte fails with InvalidByte, and
\* an InvalidByte{byte, offset} names a field of the buffer that is out of
\* range: offset is that field's offset from the start of the buffer (the
\* nested Interrupt's fields from 16 on) and byte is the byte there
C19_InvalidByteOffset ==
    (call.fn \in DecodeFns /\ ret # NoRet /\ ReachesEnums) =>
        LET bad == {f \in EnumFields(call.fn) :
                        call.buf[f.off + 1] \notin f.valid}
        IN  /\ bad # {} => ~ret.r.ok /\ ret.r.e.kind = "InvalidByte"
            /\ (~ret.r.ok /\ ret.r.e.kind = "InvalidByte") =>
                   \E f \in bad :
                       /\ ret.r.e.start = f.off
                       /\ ret.r.e.byte = call.buf[f.off + 1]


ResponseDecoded ==
    /\ call.fn = "Response::deserialize"
    /\ ret # NoRet
    /\ Len(call.buf) = POLL_RESPONSE_SIZE

\* every enum byte of the descriptor at offset 16 is in range
DescriptorValid(buf) == \A f \in InterruptFields(16) : buf[f.off + 1] \in f.valid

\* C23: a 36-byte PollResponse decodes to session_id present, action_id and
\* interrupt absent exactly when status bit 0x8000 is clear, whatever the
\* descriptor bytes are; with the bit set it decodes to session_id absent,
\* action_id and interrupt present when the descriptor is valid, and fails
\* to decode when a descriptor byte is out of range
C23_DecodeByInterruptBit ==
    ResponseDecoded =>
        LET status == U32FromBE(SubSeq(call.buf, 1, 4))
            bit == (status \div 32768) % 2 = 1
        IN  /\ ~bit =>
                /\ ret.r.ok
                /\ ret.r.v.session_id = Some(U32FromBE(SubSeq(call.buf, 5, 8)))
                /\ ret.r.v.action_id = None
                /\ ret.r.v.interrupt = None
            /\ (bit /\ DescriptorValid(call.buf)) =>
                /\ ret.r.ok
                /\ ret.r.v.session_id = None
                /\ ret.r.v.action_id
                       = Some(U32FromBE(SubSeq(call.buf, 13, 16)))
                /\ ret.r.v.interrupt.some
            /\ (bit /\ ~DescriptorValid(call.buf)) => ~ret.r.ok

\* a response with the bit clear and an out-of-range descriptor byte was
\* decoded, and one of its status bits other than 0x8000 is set
C23_Witness ==
    /\ ResponseDecoded
    /\ U32FromBE(SubSeq(call.buf, 1, 4)) = 1
    /\ ~DescriptorValid(call.buf)
    /\ ret.r.ok
    /\ ret.r.v.session_id = Some(16909060)
-----------------------------------------------------------------------------
(* Host::new on its own.  A string is a sequence of characters and a        *)
(* character is the sequence of its one or two UTF-16 code units.           *)

MaxTail == 5

\* u16_buffer.len()
HostBufferLen == MAX_HOST_LENGTH \div 2

\* c.len_utf16()
len_utf16(c) == Len(c)

\* prev_len = (prev_len << 2) | (c.len_utf16() as u8), on a u8
PackLen(prev_len, n) == ((prev_len * 4) % 256) + n

\* the loop over host.chars(): writes the characters that fit and stops at
\* the first one that does not
RECURSIVE HostFill(_, _, _, _, _)
HostFill(chars, i, cur_len, prev_len, buf) ==
    IF i > Len(chars)
    THEN [overflowing |-> FALSE, cur_len |-> cur_len, prev_len |-> prev_len,
          buf |-> buf]
    ELSE LET c == chars[i]
             cur_start == cur_len
             new_len == cur_len + len_utf16(c)
             new_prev == PackLen(prev_len, len_utf16(c))
         IN  IF new_len > HostBufferLen
             THEN [overflowing |-> TRUE, cur_len |-> new_len,
                   prev_len |-> new_prev, buf |-> buf]
             ELSE HostFill(chars, i + 1, new_len, new_prev,
                           [k \in 1..HostBufferLen |->
                               IF k > cur_start /\ k <= new_len
                               THEN c[k - cur_start] ELSE buf[k]])

NoRoomForEllipsis_at_end(cur_len) == cur_len > HostBufferLen

\* while cur_len > u16_buffer.len() - 3
NoRoomForEllipsis(cur_len) == cur_len > HostBufferLen - 3

\* the loop that makes room for the ellipsis, one remembered character
\* length at a time; -1 when it would never end
RECURSIVE HostBackOff(_, _)
HostBackOff(cur_len, prev_len) ==
    IF NoRoomForEllipsis(cur_len)
    THEN IF prev_len % 4 = 0 /\ prev_len \div 4 = 0 THEN -1
         ELSE HostBackOff(cur_len - (prev_len % 4), prev_len \div 4)
    ELSE cur_len

\* u16_buffer before the change of byte order
HostNewUnits(chars) ==
    LET f == HostFill(chars, 1, 0, 0, [k \in 1..HostBufferLen |-> 0])
    IN  IF ~f.overflowing THEN f.buf
        ELSE LET cur_len == HostBackOff(f.cur_len, f.prev_len)
             IN  IF cur_len < 0 THEN << >>
                 ELSE [k \in 1..HostBufferLen |->
                          IF k <= cur_len THEN f.buf[k]
                          ELSE IF k <= cur_len + 3 THEN 46
                          ELSE 0]

\* Host::new
HostNew(chars) == HostBufOf(HostNewUnits(chars))

\* a BMP character and one that takes a surrogate pair
TailChars == { <<26085>>, <<55357, 56832>> }

RECURSIVE TailsOf(_)
TailsOf(n) ==
    IF n = 0 THEN { << >> }
    ELSE LET T == TailsOf(n - 1)
         IN  T \cup { Append(t, c) : t \in { x \in T : Len(x) = n - 1 },
                                      c \in TailChars }

\* strings of 'a' followed by a short mixed tail, around the 32-unit limit
HostStrings ==
    { [k \in 1..n |-> <<97>>] \o t :
          n \in {0} \cup (HostBufferLen - 8)..(HostBufferLen + 1),
          t \in TailsOf(MaxTail) }

HostInit ==
    /\ AtRest
    /\ call \in { [fn |-> "Host::new", s |-> s] : s \in HostStrings }
    /\ ret = NoRet

\* Host::new(s)
ApplyHostNew ==
    /\ call.fn = "Host::new"
    /\ ret = NoRet
    /\ ret' = [fn |-> call.fn, units |-> HostNewUnits(call.s),
               bytes |-> HostNew(call.s)]
    /\ UNCHANGED <<listener_vars, sequence, last_sent, call, scan>>

HostNext == ApplyHostNew

HostSpec == HostInit /\ [][HostNext]_vars

HostCalled == call.fn = "Host::new" /\ ret # NoRet

\* the UTF-16 encoding of a string
RECURSIVE Utf16(_)
Utf16(chars) ==
    IF chars = << >> THEN << >> ELSE Head(chars) \o Utf16(Tail(chars))

\* the longest prefix of whole characters whose encoding is at most n units
LongestPrefix(chars, n) ==
    LET K == { k \in 0..Len(chars) : Len(Utf16(SubSeq(chars, 1, k))) <= n }
    IN  SubSeq(chars, 1, CHOOSE k \in K : \A j \in K : j <= k)

\* C22: Host::new(s) is exactly 32 UTF-16 code units (64 bytes, big
\* endian); a string of at most 32 units is stored whole and zero padded;
\* a longer one becomes its longest prefix of whole characters of at most 29
\* units, then three '.' units, then zeros
C22_HostNewTruncates ==
    HostCalled =>
        LET u == Utf16(call.s)
            p == Utf16(LongestPrefix(call.s, 29))
            want == IF Len(u) <= 32 THEN u ELSE p \o <<46, 46, 46>>
        IN  /\ Len(ret.units) = 32
            /\ Len(ret.bytes) = 64
            /\ \A k \in 1..32 :
                   /\ ret.bytes[2 * k - 1] * 256 + ret.bytes[2 * k]
                          = ret.units[k]
                   /\ ret.units[k] = IF k <= Len(want) THEN want[k] ELSE 0

\* a string of more than 32 units was cut before a surrogate pair that
\* would have crossed unit 29: 28 units, the ellipsis, one zero
C22_Witness ==
    /\ HostCalled
    /\ Len(Utf16(call.s)) > 32
    /\ ret.units[28] = 56832
    /\ ret.units[29] = 46
    /\ ret.units[31] = 46
    /\ ret.units[32] = 0

-----------------------------------------------------------------------------
(* The channel with its socket.  The UDP socket is connected once and lives  *)
(* as long as the channel; a reply that arrives after the recv that waited   *)
(* for it has timed out stays in the socket until the next recv.  The        *)
(* scanner here is well behaved: it answers each command at most once, with  *)
(* a well-formed response that is not an interrupt.  `scan` holds the        *)
(* listener's position, the commands not answered yet and the socket's       *)
(* receive queue; `call` is the command sent last and `ret` the last recv.   *)

MaxGen == 2
MaxInbox == 2

Command(kind, seq, gen) ==
    [fn |-> "Channel::send", kind |-> kind,
     ptype |-> IF kind = "Discover" THEN "discover" ELSE "poll",
     seq |-> seq, gen |-> gen]

\* the session id the scanner puts in its reply to command c
IssuedSessionId(c) == 10 * c.gen + c.seq

\* the scanner's reply to command c: header sequence and payload type of
\* the command, and the payload
ReplyTo(c) ==
    [ to |-> c,
      dg |-> IF c.kind = "Discover"
             THEN Datagram(TRUE, 0, DISCOVER_RESPONSE_SIZE, TRUE, ZeroBody)
             ELSE Datagram(TRUE, 0, POLL_RESPONSE_SIZE, FALSE,
                           [ZeroBody EXCEPT !.session_id = IssuedSessionId(c)]) ]

SockStart == [pc |-> "try_init", gen |-> 0, pending |-> {}, inbox |-> << >>]

SockInit ==
    /\ ListenerIdle
    /\ sequence = 0
    /\ last_sent = NoneSent
    /\ call = NoCall
    /\ ret = NoRet
    /\ scan = SockStart

\* try_init up to its first await: self.channel.reset_sequence()
SockTryInit ==
    /\ scan.pc = "try_init"
    /\ scan.gen < MaxGen
    /\ sequence' = reset_sequence(sequence)
    /\ scan' = [scan EXCEPT !.pc = "send_discover", !.gen = @ + 1]
    /\ UNCHANGED <<listener_vars, last_sent, call, ret>>

\* Channel::send under the deadline; an error ends the step and the next
\* step that sends is a try_init
SockSend(kind, at, next_pc) ==
    /\ scan.pc = at
    /\ \E o \in SendOutcomes :
          /\ sequence' = SequenceAfterSend(sequence, o)
          /\ IF o = "ok"
             THEN LET c == Command(kind, WireSequence(sequence), scan.gen)
                  IN  /\ call' = c
                      /\ scan' = [scan EXCEPT !.pc = next_pc,
                                              !.pending = @ \cup {c}]
             ELSE /\ scan' = [scan EXCEPT !.pc = "try_init"]
                  /\ UNCHANGED call
    /\ UNCHANGED <<listener_vars, last_sent, ret>>

SockSendDiscover == SockSend("Discover", "send_discover", "recv_discover")
SockSendHostOnly == SockSend("HostOnly", "send_hostonly", "recv_hostonly")
SockSendFull ==
    /\ sequence < MaxSequence
    /\ SockSend("Full", "send_full", "recv_full")

\* the scanner answers a command; the reply reaches the socket
SockReply ==
    /\ Len(scan.inbox) < MaxInbox
    /\ \E c \in scan.pending :
          scan' = [scan EXCEPT !.pending = @ \ {c},
                               !.inbox = Append(@, ReplyTo(c))]
    /\ UNCHANGED <<listener_vars, sequence, last_sent, call, ret>>

SockRecvPcs == {"recv_discover", "recv_hostonly", "recv_full"}

\* timeout(max_waiting, recv()) with nothing in the socket: Elapsed
SockRecvElapsed ==
    /\ scan.pc \in SockRecvPcs
    /\ scan.inbox = << >>
    /\ scan' = [scan EXCEPT !.pc = "try_init"]
    /\ ret' = [fn |-> "Channel::recv", cmd |-> call, to |-> NoCall,
               r |-> Err("elapsed"), stored |-> FALSE]
    /\ UNCHANGED <<listener_vars, sequence, last_sent, call>>

\* recv() takes the datagram at the head of the socket's queue and decodes
\* its payload as the type the caller expects; the caller then goes on, and
\* stores the session id after a HostOnly or Full
SockRecv ==
    /\ scan.pc \in SockRecvPcs
    /\ scan.inbox # << >>
    /\ LET reply == Head(scan.inbox)
           r == ChannelRecv(reply.dg, call.ptype)
           sid == IF ~r.ok THEN Err(r.e)
                  ELSE IF scan.pc = "recv_hostonly" THEN FirstPollSessionId(r.v)
                  ELSE IF scan.pc = "recv_full"
                  THEN Ok(UpdateSessionId(session_id, r.v))
                  ELSE Ok(session_id)
       IN  /\ ret' = [fn |-> "Channel::recv", cmd |-> call, to |-> reply.to,
                      r |-> r,
                      stored |-> r.ok /\ sid.ok /\ scan.pc # "recv_discover"]
           /\ session_id' = IF sid.ok THEN sid.v ELSE session_id
           /\ scan' = [scan EXCEPT
                         !.inbox = Tail(@),
                         !.pc = IF ~sid.ok THEN "try_init"
                                ELSE IF scan.pc = "recv_discover"
                                THEN "send_hostonly"
                                ELSE "send_full"]
    /\ UNCHANGED <<config, state, pc, max_waiting, resp, ops, entered, result,
                   err, sequence, last_sent, call>>

SockNext ==
    \/ SockTryInit
    \/ SockSendDiscover
    \/ SockSendHostOnly
    \/ SockSendFull
    \/ SockReply
    \/ SockRecvElapsed
    \/ SockRecv

SockSpec == SockInit /\ [][SockNext]_vars

\* C24 as stated: a response that a recv consumed is the reply to the
\* command sent immediately before it, and a session id is stored only from
\* such a reply
C24_ReplyMatchesCommand ==
    (ret # NoRet /\ ret.fn = "Channel::recv" /\ ret.r.ok) =>
        /\ ret.to.seq = ret.cmd.seq
        /\ ret.to.ptype = ret.cmd.ptype
        /\ ret.stored => ret.to = ret.cmd

-----------------------------------------------------------------------------
(* Recovery.  The same channel and socket, without a bound on the number of  *)
(* attempts, and with a scanner that from some point on (`good`) answers     *)
(* every command with a well-formed response before the deadline: from then  *)
(* on no recv finds the socket empty until its deadline and no send fails.   *)
(* Replies from before that point may still be in the socket or on the way.  *)

LiveStart ==
    [pc |-> "try_init", gen |-> 0, pending |-> {}, inbox |-> << >>,
     good |-> FALSE]

LiveInit ==
    /\ ListenerIdle
    /\ sequence = 0
    /\ last_sent = NoneSent
    /\ call = NoCall
    /\ ret = NoRet
    /\ scan = LiveStart

\* try_init up to its first await: self.channel.reset_sequence()
LiveTryInit ==
    /\ scan.pc = "try_init"
    /\ sequence' = reset_sequence(sequence)
    /\ scan' = [scan EXCEPT !.pc = "send_discover"]
    /\ UNCHANGED <<listener_vars, last_sent, call, ret>>

LiveSendDiscover == SockSendDiscover /\ (scan.good => scan'.pc # "try_init")
LiveSendHostOnly == SockSendHostOnly /\ (scan.good => scan'.pc # "try_init")
LiveSendFull == SockSendFull /\ (scan.good => scan'.pc # "try_init")

LiveRecvElapsed == ~scan.good /\ SockRecvElapsed

\* from now on the scanner answers in time
ScannerRecovers ==
    /\ ~scan.good
    /\ scan' = [scan EXCEPT !.good = TRUE]
    /\ UNCHANGED <<listener_vars, sequence, last_sent, call, ret>>

LiveNext ==
    \/ LiveTryInit
    \/ LiveSendDiscover
    \/ LiveSendHostOnly
    \/ LiveSendFull
    \/ SockReply
    \/ LiveRecvElapsed
    \/ SockRecv
    \/ ScannerRecovers

\* every await of the listener ends, and the scanner's replies arrive
LiveSpec == LiveInit /\ [][LiveNext]_vars /\ WF_vars(LiveNext)

\* the listener is in its poll round
InPoll == scan.pc \in {"send_full", "recv_full"}

\* C29 as stated: once the scanner answers every command in time with a
\* well-formed response that is not an interrupt, the listener eventually
\* reaches Poll
C29_RecoveryLive == scan.good ~> InPoll
====
